---- MODULE Spec2Model ----
(***************************************************************************)
(* A model of the linalg library (lucas-gtr/linalg): the fixed-size vector *)
(* types Vec2/Vec3/Vec4 and the square matrix types Mat3/Mat4.             *)
(*                                                                         *)
(* The scalar kind T (float/double in the code) is modelled by exact       *)
(* rationals <<numerator, denominator>> in lowest terms with a positive    *)
(* denominator: every formula of the code is evaluated operation by        *)
(* operation as written, without floating-point rounding.                  *)
(*                                                                         *)
(* The library is a set of value types and pure functions.  The state of   *)
(* the model is the object under test (a vector or a matrix), the          *)
(* operation applied last with its arguments, and what that operation      *)
(* returned or which failure it signalled.                                 *)
(***************************************************************************)
EXTENDS Integers, Sequences, FiniteSets, TLC

VARIABLES
  vec,      \* the vector object under test: [n |-> arity, x, y(, z(, w))]
  mat,      \* the matrix object under test: [n |-> 3 or 4, m |-> cells]
  op,       \* the operation applied last, with its arguments
  result,   \* what that operation returned, or the failure it signalled
  writes    \* number of cell/component writes applied to the object

vars == <<vec, mat, op, result, writes>>

----------------------------------------------------------------------------
(* Bounds of the model *)

\* indices tried by operator[] range over -IndexSlack .. 3 + IndexSlack
IndexSlack == 2

\* number of component writes applied to a vector after its construction
MaxVecWrites == 2

\* number of cell writes applied to a matrix after its construction
MaxMatWrites == 1

\* nested lists handed to the list constructors have up to MaxRows rows of
\* up to MaxCols values each
MaxRows == 5
MaxCols == 5

----------------------------------------------------------------------------
(* The scalar kind T: exact rational arithmetic *)

RECURSIVE GCD(_, _)
GCD(a, b) == IF b = 0 THEN a ELSE GCD(b, a % b)

IAbs(a) == IF a < 0 THEN -a ELSE a

\* the scalar n/d (d # 0) in lowest terms
Q(n, d) ==
  LET g == GCD(IAbs(n), IAbs(d))
  IN IF d < 0 THEN <<(-n) \div g, (-d) \div g>> ELSE <<n \div g, d \div g>>

\* the scalar of an integer literal
I(n) == <<n, 1>>

Zero == I(0)
One == I(1)

Add(a, b) ==
  IF a[2] = 1 /\ b[2] = 1 THEN <<a[1] + b[1], 1>>
  ELSE LET g == GCD(a[2], b[2])
       IN Q(a[1] * (b[2] \div g) + b[1] * (a[2] \div g), (a[2] \div g) * b[2])

Neg(a) == <<-a[1], a[2]>>

Sub(a, b) == Add(a, Neg(b))

Mul(a, b) ==
  IF a[2] = 1 /\ b[2] = 1 THEN <<a[1] * b[1], 1>>
  ELSE LET g1 == GCD(IAbs(a[1]), b[2])
           g2 == GCD(IAbs(b[1]), a[2])
       IN <<(a[1] \div g1) * (b[1] \div g2), (a[2] \div g2) * (b[2] \div g1)>>

\* a / b for b # 0
Div(a, b) ==
  Mul(a, IF b[1] < 0 THEN <<-b[2], -b[1]>> ELSE <<b[2], b[1]>>)

\* std::abs / std::fabs
FAbs(a) == <<IAbs(a[1]), a[2]>>

\* n1/d1 < n2/d2 for positive d1, d2, by continued-fraction comparison
RECURSIVE FracLess(_, _, _, _)
FracLess(n1, d1, n2, d2) ==
  LET q1 == n1 \div d1
      q2 == n2 \div d2
      r1 == n1 % d1
      r2 == n2 % d2
  IN IF q1 # q2 THEN q1 < q2
     ELSE IF r2 = 0 THEN FALSE
     ELSE IF r1 = 0 THEN TRUE
     ELSE FracLess(d2, r2, d1, r1)

Less(a, b) == FracLess(a[1], a[2], b[1], b[2])

Greater(a, b) == Less(b, a)

\* the least r in lo + 1 .. hi with r * r >= n, for lo * lo < n <= hi * hi
RECURSIVE RootBetween(_, _, _)
RootBetween(n, lo, hi) ==
  IF hi - lo <= 1 THEN hi
  ELSE LET mid == (lo + hi) \div 2
       IN IF mid * mid >= n THEN RootBetween(n, lo, mid) ELSE RootBetween(n, mid, hi)

\* the least r >= from with r * r >= n
IntRoot(n, from) ==
  IF from * from >= n THEN from
  ELSE RootBetween(n, from, IF n < 46340 THEN n ELSE 46340)

\* the scalar has a square root among the scalars of the model
HasSqrt(a) ==
  /\ a[1] >= 0
  /\ IntRoot(a[1], 0) * IntRoot(a[1], 0) = a[1]
  /\ IntRoot(a[2], 0) * IntRoot(a[2], 0) = a[2]

\* std::sqrt, defined where the root is a scalar of the model
Sqrt(a) ==
  <<CHOOSE r \in {IntRoot(a[1], 0)} : r * r = a[1],
    CHOOSE r \in {IntRoot(a[2], 0)} : r * r = a[2]>>

----------------------------------------------------------------------------
(* Outcomes of an operation *)

Returned(x) == [failure |-> "none", value |-> x]

Thrown(e) == [failure |-> e]

Nothing == Returned(<<>>)

\* no object of the kind has been constructed
NoObject == [n |-> 0]

----------------------------------------------------------------------------
(* Vec2, Vec3, Vec4 *)

Vec2(x, y) == [n |-> 2, x |-> x, y |-> y]

Vec3(x, y, z) == [n |-> 3, x |-> x, y |-> y, z |-> z]

Vec4(x, y, z, w) == [n |-> 4, x |-> x, y |-> y, z |-> z, w |-> w]

\* T operator[](int index) const
Vec2Index(u, index) ==
  CASE index = 0 -> Returned(u.x)
    [] index = 1 -> Returned(u.y)
    [] OTHER -> Thrown("out_of_range")

Vec3Index(u, index) ==
  CASE index = 0 -> Returned(u.x)
    [] index = 1 -> Returned(u.y)
    [] index = 2 -> Returned(u.z)
    [] OTHER -> Thrown("out_of_range")

Vec4Index(u, index) ==
  CASE index = 0 -> Returned(u.x)
    [] index = 1 -> Returned(u.y)
    [] index = 2 -> Returned(u.z)
    [] index = 3 -> Returned(u.w)
    [] OTHER -> Thrown("out_of_range")

\* T& operator[](int index): the component the returned reference names
Vec2RefBug(index) ==
  IF index = 0 THEN Returned("x")
  ELSE Returned("y")

Vec2Ref(index) ==
  IF index = 0 THEN Returned("x")
  ELSE IF index = 1 THEN Returned("y")
  ELSE Thrown("out_of_range")

Vec3Ref(index) ==
  IF index = 0 THEN Returned("x")
  ELSE IF index = 1 THEN Returned("y")
  ELSE IF index = 2 THEN Returned("z")
  ELSE Thrown("out_of_range")

Vec4RefSwapped(index) ==
  IF index = 0 THEN Returned("x")
  ELSE IF index = 1 THEN Returned("y")
  ELSE IF index = 2 THEN Returned("w")
  ELSE IF index = 3 THEN Returned("z")
  ELSE Thrown("out_of_range")

Vec4Ref(index) ==
  IF index = 0 THEN Returned("x")
  ELSE IF index = 1 THEN Returned("y")
  ELSE IF index = 2 THEN Returned("z")
  ELSE IF index = 3 THEN Returned("w")
  ELSE Thrown("out_of_range")

\* dispatch on the static type of the object
VecIndex(u, index) ==
  CASE u.n = 2 -> Vec2Index(u, index)
    [] u.n = 3 -> Vec3Index(u, index)
    [] u.n = 4 -> Vec4Index(u, index)

VecRef(u, index) ==
  CASE u.n = 2 -> Vec2Ref(index)
    [] u.n = 3 -> Vec3Ref(index)
    [] u.n = 4 -> Vec4Ref(index)

----------------------------------------------------------------------------
(* Vec2, Vec3, Vec4: length and normalisation *)

\* VecN(T value)
VecFill(n, value) ==
  CASE n = 2 -> Vec2(value, value)
    [] n = 3 -> Vec3(value, value, value)
    [] n = 4 -> Vec4(value, value, value, value)

\* VecN::squaredLength
SquaredLength(u) ==
  CASE u.n = 2 -> Add(Mul(u.x, u.x), Mul(u.y, u.y))
    [] u.n = 3 -> Add(Add(Mul(u.x, u.x), Mul(u.y, u.y)), Mul(u.z, u.z))
    [] u.n = 4 -> Add(Add(Add(Mul(u.x, u.x), Mul(u.y, u.y)), Mul(u.z, u.z)), Mul(u.w, u.w))

\* VecN::length
Length(u) == Sqrt(SquaredLength(u))

\* VecN::operator/(T scalar), and the value operator/=(T scalar) leaves
VecDiv(u, scalar) ==
  CASE u.n = 2 -> Vec2(Div(u.x, scalar), Div(u.y, scalar))
    [] u.n = 3 -> Vec3(Div(u.x, scalar), Div(u.y, scalar), Div(u.z, scalar))
    [] u.n = 4 -> Vec4(Div(u.x, scalar), Div(u.y, scalar), Div(u.z, scalar), Div(u.w, scalar))

\* VecN::normalized
NormalizedThrowsOnZero(u) ==
  LET len == Length(u)
  IN IF Greater(len, Zero) THEN Returned(VecDiv(u, len)) ELSE Thrown("domain_error")

Normalized(u) ==
  LET len == Length(u)
  IN IF Greater(len, Zero) THEN Returned(VecDiv(u, len)) ELSE Returned(VecFill(u.n, Zero))

\* VecN::normalize: the value of the object afterwards
NormalizeBySquaredLength(u) ==
  LET len == Length(u)
  IN IF Greater(len, Zero) THEN VecDiv(u, SquaredLength(u)) ELSE u

Normalize(u) ==
  LET len == Length(u)
  IN IF Greater(len, Zero) THEN VecDiv(u, len) ELSE u

\* Vec3::operator-(const Vec3& other)
Vec3Sub(u, other) == Vec3(Sub(u.x, other.x), Sub(u.y, other.y), Sub(u.z, other.z))

\* Vec3::cross
Vec3CrossLeftHanded(u, other) ==
  Vec3(Sub(Mul(u.z, other.y), Mul(u.y, other.z)),
       Sub(Mul(u.x, other.z), Mul(u.z, other.x)),
       Sub(Mul(u.y, other.x), Mul(u.x, other.y)))

Vec3Cross(u, other) ==
  Vec3(Sub(Mul(u.y, other.z), Mul(u.z, other.y)),
       Sub(Mul(u.z, other.x), Mul(u.x, other.z)),
       Sub(Mul(u.x, other.y), Mul(u.y, other.x)))

----------------------------------------------------------------------------
(* Inputs *)

\* component and cell values
Vals == {I(-1), I(0), I(1), I(2)}

Indices == (0 - IndexSlack) .. (3 + IndexSlack)

VecInputs ==
  {Vec2(x, y) : x \in Vals, y \in Vals}
    \cup {Vec3(x, y, z) : x \in Vals, y \in Vals, z \in Vals}
    \cup {Vec4(x, y, z, w) : x \in Vals, y \in Vals, z \in Vals, w \in Vals}

----------------------------------------------------------------------------
(* The vector specification: construction and indexed access *)

InitVec ==
  /\ vec \in VecInputs
  /\ mat = NoObject
  /\ op = [name |-> "construct"]
  /\ result = Nothing
  /\ writes = 0

\* A read leaves the vector as it was, and so does a write that signals a
\* failure: an operation applied after one of them is applied to the same
\* vector.  The model applies the operations to a vector as built:
\* constructed, then written to.
VecBuilt ==
  /\ vec.n > 0
  /\ op.name \in {"construct", "index_write", "normalize"}
  /\ result.failure = "none"

\* x = v[index] on a const vector
VecIndexRead(index) ==
  /\ VecBuilt
  /\ op' = [name |-> "index_read", index |-> index]
  /\ result' = VecIndex(vec, index)
  /\ UNCHANGED <<vec, mat, writes>>

\* v[index] = value
VecIndexWrite(index, value) ==
  /\ VecBuilt
  /\ writes < MaxVecWrites
  /\ op' = [name |-> "index_write", index |-> index, value |-> value]
  /\ LET ref == VecRef(vec, index)
     IN IF ref.failure = "none"
        THEN /\ vec' = [vec EXCEPT ![ref.value] = value]
             /\ result' = Nothing
             /\ writes' = writes + 1
        ELSE /\ result' = Thrown(ref.failure)
             /\ UNCHANGED <<vec, writes>>
  /\ UNCHANGED mat

\* the length of the vector is a scalar of the model
ExactLength(u) == HasSqrt(SquaredLength(u))

\* u = v.normalized()
VecNormalized ==
  /\ VecBuilt
  /\ ExactLength(vec)
  /\ op' = [name |-> "normalized"]
  /\ result' = Normalized(vec)
  /\ UNCHANGED <<vec, mat, writes>>

\* v.normalize()
VecNormalize ==
  /\ VecBuilt
  /\ ExactLength(vec)
  /\ writes < MaxVecWrites
  /\ op' = [name |-> "normalize", before |-> vec]
  /\ vec' = Normalize(vec)
  /\ result' = Nothing
  /\ writes' = writes + 1
  /\ UNCHANGED mat

NextVec ==
  \/ \E index \in Indices : VecIndexRead(index)
  \/ \E index \in Indices, value \in Vals : VecIndexWrite(index, value)
  \/ VecNormalized
  \/ VecNormalize

SpecVec == InitVec /\ [][NextVec]_vars

----------------------------------------------------------------------------
(* C1: for every vector type and every index outside 0..N-1, both the read *)
(* and the write form of operator[] signal an out-of-range failure, and    *)
(* the vector's components are unchanged by the failing access.            *)

IsIndexOp == op.name \in {"index_read", "index_write"}

C1_OutOfRangeSignalled ==
  /\ [](IsIndexOp /\ op.index \notin 0 .. vec.n - 1
          => result = Thrown("out_of_range"))
  /\ [][result'.failure = "out_of_range" => vec' = vec]_vars

C1_Witness ==
  /\ op.name = "index_write"
  /\ op.index = vec.n
  /\ writes = 1
  /\ result = Thrown("out_of_range")

----------------------------------------------------------------------------
(* Mat3, Mat4: construction *)

\* std::array<std::array<T, N>, N> m{}: value-initialised storage, which is
\* what a constructor without a member initialiser for m starts from
ZeroCells(n) == [i \in 0 .. n - 1 |-> [j \in 0 .. n - 1 |-> Zero]]

\* Mat3() / Mat4(): the identity
Identity(n) ==
  [i \in 0 .. n - 1 |-> [j \in 0 .. n - 1 |-> IF i = j THEN One ELSE Zero]]

Mat3Obj(m) == [n |-> 3, m |-> m]

Mat4Obj(m) == [n |-> 4, m |-> m]

\* Mat3(std::initializer_list<std::initializer_list<T>> list): the loop over
\* the rows from row i on; a list is a sequence of rows, a row a sequence of
\* values, and the loop counters i, j of the code count from 0
RECURSIVE Mat3ListRows(_, _, _)
Mat3ListRows(m, list, i) ==
  IF i = Len(list) THEN Returned(m)
  ELSE IF Len(list[i + 1]) # 3 THEN Thrown("invalid_argument")
  ELSE Mat3ListRows(
         [m EXCEPT ![i] = [j \in 0 .. 2 |-> list[i + 1][j + 1]]], list, i + 1)

Mat3ListCtorNoRowCheck(list) ==
  IF Len(list) < 3 THEN Thrown("invalid_argument")
  ELSE Mat3ListRows(ZeroCells(3), SubSeq(list, 1, 3), 0)

Mat3ListCtor(list) ==
  IF Len(list) # 3 THEN Thrown("invalid_argument")
  ELSE Mat3ListRows(ZeroCells(3), list, 0)

\* Mat4(std::initializer_list<std::initializer_list<T>> list): the inner
\* loop over the values of row i from value j on
RECURSIVE Mat4ListValues(_, _, _, _)
Mat4ListValues(m, row, i, j) ==
  IF j = Len(row) THEN m
  ELSE Mat4ListValues(
         IF i < 4 /\ j < 4 THEN [m EXCEPT ![i][j] = row[j + 1]] ELSE m,
         row, i, j + 1)

\* the outer loop over the rows from row i on
RECURSIVE Mat4ListRows(_, _, _)
Mat4ListRows(m, list, i) ==
  IF i = Len(list) THEN m
  ELSE Mat4ListRows(Mat4ListValues(m, list[i + 1], i, 0), list, i + 1)

Mat4ListCtorIdentityFill(list) == Returned(Mat4ListRows(Identity(4), list, 0))

Mat4ListCtorTransposing(list) ==
  LET m == Mat4ListRows(ZeroCells(4), list, 0)
  IN Returned([i \in 0 .. 3 |-> [j \in 0 .. 3 |-> m[j][i]]])

Mat4ListCtor(list) == Returned(Mat4ListRows(ZeroCells(4), list, 0))

----------------------------------------------------------------------------
(* Mat3, Mat4: algebra *)

\* T operator()(int row, int col) const
At(m, row, col) == m[row][col]

\* T operator[](int index) const of Mat4: row-major flat index
Mat4Flat(m, index) == m[index \div 4][index % 4]

\* Mat3::transposed
Mat3Transposed(m) ==
  [i \in 0 .. 2 |-> [j \in 0 .. 2 |->
     CASE i = 0 /\ j = 0 -> m[0][0]
       [] i = 0 /\ j = 1 -> m[1][0]
       [] i = 0 /\ j = 2 -> m[2][0]
       [] i = 1 /\ j = 0 -> m[0][1]
       [] i = 1 /\ j = 1 -> m[1][1]
       [] i = 1 /\ j = 2 -> m[2][1]
       [] i = 2 /\ j = 0 -> m[0][2]
       [] i = 2 /\ j = 1 -> m[1][2]
       [] i = 2 /\ j = 2 -> m[2][2]]]

\* Mat4::transposed
Mat4TransposedSlip(m) ==
  [i \in 0 .. 3 |-> [j \in 0 .. 3 |->
     IF i = 2 /\ j = 3 THEN m[2][3] ELSE m[j][i]]]

Mat4Transposed(m) ==
  [i \in 0 .. 3 |-> [j \in 0 .. 3 |->
     CASE i = 0 /\ j = 0 -> m[0][0]
       [] i = 0 /\ j = 1 -> m[1][0]
       [] i = 0 /\ j = 2 -> m[2][0]
       [] i = 0 /\ j = 3 -> m[3][0]
       [] i = 1 /\ j = 0 -> m[0][1]
       [] i = 1 /\ j = 1 -> m[1][1]
       [] i = 1 /\ j = 2 -> m[2][1]
       [] i = 1 /\ j = 3 -> m[3][1]
       [] i = 2 /\ j = 0 -> m[0][2]
       [] i = 2 /\ j = 1 -> m[1][2]
       [] i = 2 /\ j = 2 -> m[2][2]
       [] i = 2 /\ j = 3 -> m[3][2]
       [] i = 3 /\ j = 0 -> m[0][3]
       [] i = 3 /\ j = 1 -> m[1][3]
       [] i = 3 /\ j = 2 -> m[2][3]
       [] i = 3 /\ j = 3 -> m[3][3]]]

\* Mat3::operator*(const Mat3& other)
Mat3Mul(m, other) ==
  [i \in 0 .. 2 |-> [j \in 0 .. 2 |->
     Add(Add(Mul(m[i][0], other[0][j]), Mul(m[i][1], other[1][j])),
         Mul(m[i][2], other[2][j]))]]

\* Mat4::operator*(const Mat4& other)
Mat4MulDropsLastTerm(m, other) ==
  [i \in 0 .. 3 |-> [j \in 0 .. 3 |->
     Add(Add(Mul(m[i][0], other[0][j]), Mul(m[i][1], other[1][j])),
         Mul(m[i][2], other[2][j]))]]

Mat4Mul(m, other) ==
  [i \in 0 .. 3 |-> [j \in 0 .. 3 |->
     Add(Add(Add(Mul(m[i][0], other[0][j]), Mul(m[i][1], other[1][j])),
             Mul(m[i][2], other[2][j])),
         Mul(m[i][3], other[3][j]))]]

\* Mat3::determinant
Mat3DeterminantSignSlip(m) ==
  Add(Add(Mul(m[0][0], Sub(Mul(m[1][1], m[2][2]), Mul(m[1][2], m[2][1]))),
          Mul(m[0][1], Sub(Mul(m[1][0], m[2][2]), Mul(m[1][2], m[2][0])))),
      Mul(m[0][2], Sub(Mul(m[1][0], m[2][1]), Mul(m[1][1], m[2][0]))))

Mat3Determinant(m) ==
  Add(Sub(Mul(m[0][0], Sub(Mul(m[1][1], m[2][2]), Mul(m[1][2], m[2][1]))),
          Mul(m[0][1], Sub(Mul(m[1][0], m[2][2]), Mul(m[1][2], m[2][0])))),
      Mul(m[0][2], Sub(Mul(m[1][0], m[2][1]), Mul(m[1][1], m[2][0]))))

\* static constexpr T epsilon = 1e-6 of Mat3::inverse
Mat3InverseEpsilon == Q(1, 1000000)

\* Mat3::inverse past the determinant guard: the nine cells
Mat3InverseCells(m, inv_det) ==
  <<
    <<Mul(Sub(Mul(m[1][1], m[2][2]), Mul(m[1][2], m[2][1])), inv_det),
      Mul(Neg(Sub(Mul(m[0][1], m[2][2]), Mul(m[0][2], m[2][1]))), inv_det),
      Mul(Sub(Mul(m[0][1], m[1][2]), Mul(m[0][2], m[1][1])), inv_det)>>,
    <<Mul(Neg(Sub(Mul(m[1][0], m[2][2]), Mul(m[1][2], m[2][0]))), inv_det),
      Mul(Sub(Mul(m[0][0], m[2][2]), Mul(m[0][2], m[2][0])), inv_det),
      Mul(Neg(Sub(Mul(m[0][0], m[1][2]), Mul(m[0][2], m[1][0]))), inv_det)>>,
    <<Mul(Sub(Mul(m[1][0], m[2][1]), Mul(m[1][1], m[2][0])), inv_det),
      Mul(Neg(Sub(Mul(m[0][0], m[2][1]), Mul(m[0][1], m[2][0]))), inv_det),
      Mul(Sub(Mul(m[0][0], m[1][1]), Mul(m[0][1], m[1][0])), inv_det)>>
  >>

\* Mat3::inverse
Mat3InverseExactZeroGuard(m) ==
  LET det == Mat3Determinant(m)
  IN IF det = Zero THEN Identity(3)
     ELSE LET inv == Mat3InverseCells(m, Div(One, det))
          IN [i \in 0 .. 2 |-> [j \in 0 .. 2 |-> inv[i + 1][j + 1]]]

Mat3Inverse(m) ==
  LET det == Mat3Determinant(m)
  IN IF Less(FAbs(det), Mat3InverseEpsilon) THEN Identity(3)
     ELSE LET inv == Mat3InverseCells(m, Div(One, det))
          IN [i \in 0 .. 2 |-> [j \in 0 .. 2 |-> inv[i + 1][j + 1]]]

\* a * b * c
P3(a, b, c) == Mul(Mul(a, b), c)

\* Mat4::inverse: the sixteen closed-form cells inv[0] .. inv[15], before
\* the division by the determinant
Mat4Cofactors(m) ==
  LET inv == <<
    \* inv[0]
    Sub(Add(Add(Sub(Sub(P3(m[1][1], m[2][2], m[3][3]),
        P3(m[1][1], m[2][3], m[3][2])),
        P3(m[2][1], m[1][2], m[3][3])),
        P3(m[2][1], m[1][3], m[3][2])),
        P3(m[3][1], m[1][2], m[2][3])),
        P3(m[3][1], m[1][3], m[2][2])),
    \* inv[1]
    Add(Sub(Sub(Add(Add(P3(Neg(m[0][1]), m[2][2], m[3][3]),
        P3(m[0][1], m[2][3], m[3][2])),
        P3(m[2][1], m[0][2], m[3][3])),
        P3(m[2][1], m[0][3], m[3][2])),
        P3(m[3][1], m[0][2], m[2][3])),
        P3(m[3][1], m[0][3], m[2][2])),
    \* inv[2]
    Sub(Add(Add(Sub(Sub(P3(m[0][1], m[1][2], m[3][3]),
        P3(m[0][1], m[1][3], m[3][2])),
        P3(m[1][1], m[0][2], m[3][3])),
        P3(m[1][1], m[0][3], m[3][2])),
        P3(m[3][1], m[0][2], m[1][3])),
        P3(m[3][1], m[0][3], m[1][2])),
    \* inv[3]
    Add(Sub(Sub(Add(Add(P3(Neg(m[0][1]), m[1][2], m[2][3]),
        P3(m[0][1], m[1][3], m[2][2])),
        P3(m[1][1], m[0][2], m[2][3])),
        P3(m[1][1], m[0][3], m[2][2])),
        P3(m[2][1], m[0][2], m[1][3])),
        P3(m[2][1], m[0][3], m[1][2])),
    \* inv[4]
    Add(Sub(Sub(Add(Add(P3(Neg(m[1][0]), m[2][2], m[3][3]),
        P3(m[1][0], m[2][3], m[3][2])),
        P3(m[2][0], m[1][2], m[3][3])),
        P3(m[2][0], m[1][3], m[3][2])),
        P3(m[3][0], m[1][2], m[2][3])),
        P3(m[3][0], m[1][3], m[2][2])),
    \* inv[5]
    Sub(Add(Add(Sub(Sub(P3(m[0][0], m[2][2], m[3][3]),
        P3(m[0][0], m[2][3], m[3][2])),
        P3(m[2][0], m[0][2], m[3][3])),
        P3(m[2][0], m[0][3], m[3][2])),
        P3(m[3][0], m[0][2], m[2][3])),
        P3(m[3][0], m[0][3], m[2][2])),
    \* inv[6]
    Add(Sub(Sub(Add(Add(P3(Neg(m[0][0]), m[1][2], m[3][3]),
        P3(m[0][0], m[1][3], m[3][2])),
        P3(m[1][0], m[0][2], m[3][3])),
        P3(m[1][0], m[0][3], m[3][2])),
        P3(m[3][0], m[0][2], m[1][3])),
        P3(m[3][0], m[0][3], m[1][2])),
    \* inv[7]
    Sub(Add(Add(Sub(Sub(P3(m[0][0], m[1][2], m[2][3]),
        P3(m[0][0], m[1][3], m[2][2])),
        P3(m[1][0], m[0][2], m[2][3])),
        P3(m[1][0], m[0][3], m[2][2])),
        P3(m[2][0], m[0][2], m[1][3])),
        P3(m[2][0], m[0][3], m[1][2])),
    \* inv[8]
    Sub(Add(Add(Sub(Sub(P3(m[1][0], m[2][1], m[3][3]),
        P3(m[1][0], m[2][3], m[3][1])),
        P3(m[2][0], m[1][1], m[3][3])),
        P3(m[2][0], m[1][3], m[3][1])),
        P3(m[3][0], m[1][1], m[2][3])),
        P3(m[3][0], m[1][3], m[2][1])),
    \* inv[9]
    Add(Sub(Sub(Add(Add(P3(Neg(m[0][0]), m[2][1], m[3][3]),
        P3(m[0][0], m[2][3], m[3][1])),
        P3(m[2][0], m[0][1], m[3][3])),
        P3(m[2][0], m[0][3], m[3][1])),
        P3(m[3][0], m[0][1], m[2][3])),
        P3(m[3][0], m[0][3], m[2][1])),
    \* inv[10]
    Sub(Add(Add(Sub(Sub(P3(m[0][0], m[1][1], m[3][3]),
        P3(m[0][0], m[1][3], m[3][1])),
        P3(m[1][0], m[0][1], m[3][3])),
        P3(m[1][0], m[0][3], m[3][1])),
        P3(m[3][0], m[0][1], m[1][3])),
        P3(m[3][0], m[0][3], m[1][1])),
    \* inv[11]
    Add(Sub(Sub(Add(Add(P3(Neg(m[0][0]), m[1][1], m[2][3]),
        P3(m[0][0], m[1][3], m[2][1])),
        P3(m[1][0], m[0][1], m[2][3])),
        P3(m[1][0], m[0][3], m[2][1])),
        P3(m[2][0], m[0][1], m[1][3])),
        P3(m[2][0], m[0][3], m[1][1])),
    \* inv[12]
    Add(Sub(Sub(Add(Add(P3(Neg(m[1][0]), m[2][1], m[3][2]),
        P3(m[1][0], m[2][2], m[3][1])),
        P3(m[2][0], m[1][1], m[3][2])),
        P3(m[2][0], m[1][2], m[3][1])),
        P3(m[3][0], m[1][1], m[2][2])),
        P3(m[3][0], m[1][2], m[2][1])),
    \* inv[13]
    Sub(Add(Add(Sub(Sub(P3(m[0][0], m[2][1], m[3][2]),
        P3(m[0][0], m[2][2], m[3][1])),
        P3(m[2][0], m[0][1], m[3][2])),
        P3(m[2][0], m[0][2], m[3][1])),
        P3(m[3][0], m[0][1], m[2][2])),
        P3(m[3][0], m[0][2], m[2][1])),
    \* inv[14]
    Add(Sub(Sub(Add(Add(P3(Neg(m[0][0]), m[1][1], m[3][2]),
        P3(m[0][0], m[1][2], m[3][1])),
        P3(m[1][0], m[0][1], m[3][2])),
        P3(m[1][0], m[0][2], m[3][1])),
        P3(m[3][0], m[0][1], m[1][2])),
        P3(m[3][0], m[0][2], m[1][1])),
    \* inv[15]
    Sub(Add(Add(Sub(Sub(P3(m[0][0], m[1][1], m[2][2]),
        P3(m[0][0], m[1][2], m[2][1])),
        P3(m[1][0], m[0][1], m[2][2])),
        P3(m[1][0], m[0][2], m[2][1])),
        P3(m[2][0], m[0][1], m[1][2])),
        P3(m[2][0], m[0][2], m[1][1]))
      >>
  IN [i \in 0 .. 3 |-> [j \in 0 .. 3 |-> inv[4 * i + j + 1]]]

\* T det = m[0][0] * inv[0] + m[0][1] * inv[4] + m[0][2] * inv[8] + m[0][3] * inv[12]
Mat4InverseDetFirstRow(m, inv) ==
  Add(Add(Add(Mul(m[0][0], Mat4Flat(inv, 0)), Mul(m[0][1], Mat4Flat(inv, 1))),
          Mul(m[0][2], Mat4Flat(inv, 2))),
      Mul(m[0][3], Mat4Flat(inv, 3)))

Mat4InverseDet(m, inv) ==
  Add(Add(Add(Mul(m[0][0], Mat4Flat(inv, 0)), Mul(m[0][1], Mat4Flat(inv, 4))),
          Mul(m[0][2], Mat4Flat(inv, 8))),
      Mul(m[0][3], Mat4Flat(inv, 12)))

\* Mat4::inverse
Mat4InverseZeroOnSingular(m) ==
  LET inv == Mat4Cofactors(m)
      det == Mat4InverseDet(m, inv)
  IN IF det = Zero THEN ZeroCells(4)
     ELSE LET inv_det == Div(One, det)
          IN [i \in 0 .. 3 |-> [j \in 0 .. 3 |-> Mul(inv[i][j], inv_det)]]

Mat4InverseEpsilonGuard(m) ==
  LET inv == Mat4Cofactors(m)
      det == Mat4InverseDet(m, inv)
  IN IF Less(FAbs(det), Mat3InverseEpsilon) THEN Identity(4)
     ELSE LET inv_det == Div(One, det)
          IN [i \in 0 .. 3 |-> [j \in 0 .. 3 |-> Mul(inv[i][j], inv_det)]]

Mat4Inverse(m) ==
  LET inv == Mat4Cofactors(m)
      det == Mat4InverseDet(m, inv)
  IN IF det = Zero THEN Identity(4)
     ELSE LET inv_det == Div(One, det)
          IN [i \in 0 .. 3 |-> [j \in 0 .. 3 |-> Mul(inv[i][j], inv_det)]]

\* Mat3::isApprox / Mat4::isApprox
MatIsApprox(n, m, other, epsilon) ==
  \A i \in 0 .. n - 1, j \in 0 .. n - 1 :
    ~Greater(FAbs(Sub(m[i][j], other[i][j])), epsilon)

\* Mat4::LookAt(eye, center, up)
LookAtTranslationNotNegated(eye, center, up) ==
  LET forward == Normalized(Vec3Sub(center, eye)).value
      side == Normalized(Vec3Cross(forward, up)).value
      up_vector == Vec3Cross(side, forward)
      Along(u) == Add(Add(Mul(u.x, eye.x), Mul(u.y, eye.y)), Mul(u.z, eye.z))
      look_at_matrix == <<
        <<side.x, side.y, side.z, Along(side)>>,
        <<up_vector.x, up_vector.y, up_vector.z, Along(up_vector)>>,
        <<Neg(forward.x), Neg(forward.y), Neg(forward.z), Along(forward)>>,
        <<Zero, Zero, Zero, One>> >>
  IN Returned([i \in 0 .. 3 |-> [j \in 0 .. 3 |-> look_at_matrix[i + 1][j + 1]]])

\* Mat4::LookAt(eye, center, up); a failure signalled by a call it makes
\* leaves it before the matrix is built
LookAt(eye, center, up) ==
  LET forward_call == Normalized(Vec3Sub(center, eye))
  IN IF forward_call.failure # "none" THEN forward_call
     ELSE
       LET forward == forward_call.value
           side_call == Normalized(Vec3Cross(forward, up))
       IN IF side_call.failure # "none" THEN side_call
          ELSE
            LET side == side_call.value
                up_vector == Vec3Cross(side, forward)
                look_at_matrix == <<
                  <<side.x, side.y, side.z,
                    Neg(Add(Add(Mul(side.x, eye.x), Mul(side.y, eye.y)),
                            Mul(side.z, eye.z)))>>,
                  <<up_vector.x, up_vector.y, up_vector.z,
                    Neg(Add(Add(Mul(up_vector.x, eye.x), Mul(up_vector.y, eye.y)),
                            Mul(up_vector.z, eye.z)))>>,
                  <<Neg(forward.x), Neg(forward.y), Neg(forward.z),
                    Add(Add(Mul(forward.x, eye.x), Mul(forward.y, eye.y)),
                        Mul(forward.z, eye.z))>>,
                  <<Zero, Zero, Zero, One>> >>
            IN Returned([i \in 0 .. 3 |-> [j \in 0 .. 3 |-> look_at_matrix[i + 1][j + 1]]])

\* Mat4::LookAt(eye, center): the up vector chosen for a forward vector
LookAtUpWorldNonStrict(forward) ==
  IF Less(FAbs(forward.y), Q(99, 100)) THEN Vec3(Zero, One, Zero)
  ELSE Vec3(Zero, Zero, One)

LookAtUpWorldSwapped(forward) ==
  IF Greater(FAbs(forward.y), Q(99, 100)) THEN Vec3(Zero, One, Zero)
  ELSE Vec3(Zero, Zero, One)

LookAtUpWorld(forward) ==
  IF Greater(FAbs(forward.y), Q(99, 100)) THEN Vec3(Zero, Zero, One)
  ELSE Vec3(Zero, One, Zero)

\* Mat4::LookAt(eye, center)
LookAtDefaultUp(eye, center) ==
  LET forward_call == Normalized(Vec3Sub(center, eye))
  IN IF forward_call.failure # "none" THEN forward_call
     ELSE LookAt(eye, center, LookAtUpWorld(forward_call.value))

\* dispatch on the static type of the object
Transposed(a) == IF a.n = 3 THEN Mat3Transposed(a.m) ELSE Mat4Transposed(a.m)

MatMul(n, m, other) == IF n = 3 THEN Mat3Mul(m, other) ELSE Mat4Mul(m, other)

Inverse(a) == IF a.n = 3 THEN Mat3Inverse(a.m) ELSE Mat4Inverse(a.m)

----------------------------------------------------------------------------
(* The constructor specification: the nested-list constructors applied to  *)
(* lists of every shape within the bounds                                  *)

\* the value at row i, column j (from 0) of a list: the positions are
\* numbered from 2 on, so that every value differs from the 0 and 1 of the
\* default cells and from the value at every other position
ListValue(i, j) == I(2 + (MaxCols + 1) * i + j)

\* the list whose row i has lens[i] values
ListOf(lens) ==
  [i \in 1 .. Len(lens) |-> [j \in 1 .. lens[i] |-> ListValue(i - 1, j - 1)]]

\* rows are empty, too short for either type, or of 3, 4 or MaxCols values
RowLengths == {0, 2, 3, 4, MaxCols}

ListShapes == UNION {[1 .. r -> RowLengths] : r \in 0 .. MaxRows}

ListInputs == {ListOf(lens) : lens \in ListShapes}

InitCtor ==
  /\ vec = NoObject
  /\ mat = NoObject
  /\ \E n \in {3, 4}, list \in ListInputs :
       op = [name |-> "pending", n |-> n, list |-> list]
  /\ result = Nothing
  /\ writes = 0

\* Mat3 m(list): the object exists if the constructor returns
Mat3ListConstruct ==
  /\ op.name = "pending"
  /\ op.n = 3
  /\ op' = [op EXCEPT !.name = "list_ctor"]
  /\ result' = Mat3ListCtor(op.list)
  /\ mat' = IF result'.failure = "none" THEN Mat3Obj(result'.value) ELSE mat
  /\ UNCHANGED <<vec, writes>>

\* Mat4 m(list)
Mat4ListConstruct ==
  /\ op.name = "pending"
  /\ op.n = 4
  /\ op' = [op EXCEPT !.name = "list_ctor"]
  /\ result' = Mat4ListCtor(op.list)
  /\ mat' = IF result'.failure = "none" THEN Mat4Obj(result'.value) ELSE mat
  /\ UNCHANGED <<vec, writes>>

NextCtor ==
  \/ Mat3ListConstruct
  \/ Mat4ListConstruct

SpecCtor == InitCtor /\ [][NextCtor]_vars

\* the list the constructor was applied to, and its shape
IsListCtor(n) == op.name = "list_ctor" /\ op.n = n

Supplied(list, i, j) == i < Len(list) /\ j < Len(list[i + 1])

----------------------------------------------------------------------------
(* C2: Mat3's nested-list constructor signals an invalid-argument failure  *)
(* whenever the list does not have exactly 3 rows or some row does not     *)
(* have exactly 3 values, and for a 3x3 list it succeeds with cell(i,j)    *)
(* equal to the j-th value of the i-th row.                                *)

Is3x3(list) == Len(list) = 3 /\ \A i \in 1 .. 3 : Len(list[i]) = 3

C2_Mat3ListCtorStrict ==
  IsListCtor(3) =>
    IF Is3x3(op.list)
    THEN /\ result.failure = "none"
         /\ \A i \in 0 .. 2, j \in 0 .. 2 : result.value[i][j] = op.list[i + 1][j + 1]
    ELSE result = Thrown("invalid_argument")

C2_Witness ==
  /\ IsListCtor(3)
  /\ Len(op.list) = 4
  /\ \A i \in 1 .. 4 : Len(op.list[i]) = 3
  /\ result = Thrown("invalid_argument")

C2_WitnessOk == IsListCtor(3) /\ Is3x3(op.list) /\ result.failure = "none"

----------------------------------------------------------------------------
(* C3 as stated: for a Mat4 built from a nested list with fewer than 4     *)
(* rows, or with a row of fewer than 4 values, every cell not supplied by  *)
(* the list holds its identity-default value (1 on the diagonal, 0 off     *)
(* it).                                                                    *)

C3_MissingCellsIdentity ==
  IsListCtor(4) =>
    \A i \in 0 .. 3, j \in 0 .. 3 :
      ~Supplied(op.list, i, j) => result.value[i][j] = Identity(4)[i][j]

\* C3 as amended: every cell not supplied by the list holds 0, on the
\* diagonal too
C3_MissingCellsZero ==
  IsListCtor(4) =>
    \A i \in 0 .. 3, j \in 0 .. 3 :
      ~Supplied(op.list, i, j) => result.value[i][j] = Zero

\* a list of two rows of two values: cells (2,2) and (3,3) are not supplied
C3_Witness ==
  /\ IsListCtor(4)
  /\ Len(op.list) = 2
  /\ \A i \in 1 .. 2 : Len(op.list[i]) = 2
  /\ mat.m[1][1] = op.list[2][2]
  /\ mat.m[2][2] = Zero
  /\ mat.m[3][3] = Zero

----------------------------------------------------------------------------
(* C4: Mat4's nested-list constructor never signals a failure, whatever    *)
(* the shape of the list: values at row index >= 4 or column index >= 4    *)
(* are ignored, and every supplied value at (i,j) with i < 4 and j < 4 is  *)
(* stored in cell(i,j).                                                    *)

C4_Mat4ListCtorLenient ==
  IsListCtor(4) =>
    /\ result.failure = "none"
    /\ mat.m = result.value
    /\ DOMAIN result.value = 0 .. 3
    /\ \A i \in 0 .. 3 :
         /\ DOMAIN result.value[i] = 0 .. 3
         /\ \A j \in 0 .. 3 :
              Supplied(op.list, i, j) => result.value[i][j] = op.list[i + 1][j + 1]

\* five rows of five values: a row and a column beyond the 4x4 bound
C4_Witness ==
  /\ IsListCtor(4)
  /\ Len(op.list) = 5
  /\ \A i \in 1 .. 5 : Len(op.list[i]) = 5
  /\ result.failure = "none"
  /\ mat.m[3][3] = op.list[4][4]

----------------------------------------------------------------------------
(* The matrix specification: a constructed matrix, cell writes, and the    *)
(* algebraic operations applied to it                                      *)

\* the nested list of the integers rows[i][j] divided by d
ListOfInts(rows, d) ==
  [i \in 1 .. Len(rows) |-> [j \in 1 .. Len(rows[i]) |-> Q(rows[i][j], d)]]

\* the 3x3 lists of the matrix tests, and two lists whose determinant is
\* 1/8000000 (below the epsilon of Mat3::inverse) and 1/1000000 (equal to it)
Mat3Samples ==
  { ListOfInts(<< <<4, 7, 2>>, <<3, 6, 1>>, <<2, 5, 1>> >>, 1),
    ListOfInts(<< <<1, 2, 3>>, <<1, 2, 3>>, <<4, 5, 6>> >>, 1),
    ListOfInts(<< <<6, 1, 1>>, <<4, -2, 5>>, <<2, 8, 7>> >>, 1),
    ListOfInts(<< <<1, 0, 0>>, <<0, 1, 0>>, <<0, 0, 1>> >>, 200),
    ListOfInts(<< <<1, 0, 0>>, <<0, 1, 0>>, <<0, 0, 1>> >>, 100) }

\* the 4x4 lists of the matrix tests, and a list without a zero cell
Mat4Samples ==
  { ListOfInts(<< <<4, 7, 2, 0>>, <<3, 6, 1, 0>>, <<2, 5, 1, 0>>, <<0, 0, 0, 1>> >>, 1),
    ListOfInts(<< <<1, 2, 3, 4>>, <<1, 2, 3, 4>>, <<5, 6, 7, 8>>, <<9, 10, 11, 12>> >>, 1),
    ListOfInts(<< <<2, 1, 1, 1>>, <<1, 3, -1, 2>>, <<-1, 1, 2, 1>>, <<1, 2, 1, 3>> >>, 1) }

MatInputs ==
  {Mat3Obj(Identity(3)), Mat4Obj(Identity(4))}
    \cup {Mat3Obj(Mat3ListCtor(list).value) : list \in Mat3Samples}
    \cup {Mat4Obj(Mat4ListCtor(list).value) : list \in Mat4Samples}

InitMat ==
  /\ vec = NoObject
  /\ mat \in MatInputs
  /\ op = [name |-> "construct"]
  /\ result = Nothing
  /\ writes = 0

\* The operations below are const member functions: they leave the object as
\* it was, so an operation applied after another one is applied to the same
\* object.  The model applies them to an object as built: constructed, then
\* written to.
Built == mat.n > 0 /\ op.name \in {"construct", "set", "flat_set"}

\* m(row, col) = value
MatSet(row, col, value) ==
  /\ Built
  /\ writes < MaxMatWrites
  /\ row < mat.n
  /\ col < mat.n
  /\ op' = [name |-> "set", row |-> row, col |-> col, value |-> value]
  /\ mat' = [mat EXCEPT !.m[row][col] = value]
  /\ result' = Nothing
  /\ writes' = writes + 1
  /\ UNCHANGED vec

\* inv = m.inverse()
MatInverse ==
  /\ Built
  /\ op' = [name |-> "inverse"]
  /\ result' = Returned(Inverse(mat))
  /\ UNCHANGED <<vec, mat, writes>>

\* product = m * m.inverse()
MatTimesInverse ==
  /\ Built
  /\ op' = [name |-> "mul_inverse"]
  /\ result' = Returned(MatMul(mat.n, mat.m, Inverse(mat)))
  /\ UNCHANGED <<vec, mat, writes>>

\* m * Identity()
MatTimesIdentity ==
  /\ Built
  /\ op' = [name |-> "mul_identity"]
  /\ result' = Returned(MatMul(mat.n, mat.m, Identity(mat.n)))
  /\ UNCHANGED <<vec, mat, writes>>

\* Identity() * m
IdentityTimesMat ==
  /\ Built
  /\ op' = [name |-> "identity_mul"]
  /\ result' = Returned(MatMul(mat.n, Identity(mat.n), mat.m))
  /\ UNCHANGED <<vec, mat, writes>>

\* t = m.transposed()
MatTransposed ==
  /\ Built
  /\ op' = [name |-> "transposed"]
  /\ result' = Returned(Transposed(mat))
  /\ UNCHANGED <<vec, mat, writes>>

\* m.transposed().transposed()
MatTransposedTwice ==
  /\ Built
  /\ op' = [name |-> "transposed_twice"]
  /\ result' = Returned(Transposed([n |-> mat.n, m |-> Transposed(mat)]))
  /\ UNCHANGED <<vec, mat, writes>>

NextMat ==
  \/ \E row \in 0 .. 3, col \in 0 .. 3, value \in Vals : MatSet(row, col, value)
  \/ MatInverse
  \/ MatTimesInverse
  \/ MatTimesIdentity
  \/ IdentityTimesMat
  \/ MatTransposed
  \/ MatTransposedTwice

SpecMat == InitMat /\ [][NextMat]_vars

\* the determinant the inverse of the object is guarded by
InverseDet(a) ==
  IF a.n = 3 THEN Mat3Determinant(a.m) ELSE Mat4InverseDet(a.m, Mat4Cofactors(a.m))

\* the tolerance 1e-6 the tests compare a product with the identity under
ApproxTolerance == Q(1, 1000000)

\* f times the identity
ScaledIdentity(n, f) ==
  [i \in 0 .. n - 1 |-> [j \in 0 .. n - 1 |-> IF i = j THEN f ELSE Zero]]

----------------------------------------------------------------------------
(* C5 as stated: for every invertible Mat3 M (determinant different from   *)
(* 0), M * M.inverse() is approximately the identity matrix (isApprox with *)
(* epsilon 1e-6).                                                          *)

----------------------------------------------------------------------------
(* C6: for every Mat4 M with non-zero determinant, the 16 closed-form      *)
(* cells C computed by inverse() satisfy M * C = det(M) * Identity and     *)
(* C * M = det(M) * Identity in exact arithmetic, with det(M) = m00*C[0] + *)
(* m01*C[4] + m02*C[8] + m03*C[12]; hence M * M.inverse() is (exactly, so  *)
(* approximately within 1e-6) the identity.                                *)

\* the determinant of a 4x4 matrix by the Leibniz expansion along row 0,
\* independent of the closed forms of inverse()
Minor3(m, r, c) ==
  LET rows == <<IF r <= 0 THEN 1 ELSE 0, IF r <= 1 THEN 2 ELSE 1, IF r <= 2 THEN 3 ELSE 2>>
      cols == <<IF c <= 0 THEN 1 ELSE 0, IF c <= 1 THEN 2 ELSE 1, IF c <= 2 THEN 3 ELSE 2>>
  IN Mat3Determinant([i \in 0 .. 2 |-> [j \in 0 .. 2 |-> m[rows[i + 1]][cols[j + 1]]]])

Det4(m) ==
  Sub(Add(Sub(Mul(m[0][0], Minor3(m, 0, 0)), Mul(m[0][1], Minor3(m, 0, 1))),
          Mul(m[0][2], Minor3(m, 0, 2))),
      Mul(m[0][3], Minor3(m, 0, 3)))

C6_Mat4CofactorsInvert ==
  (mat.n = 4 /\ op.name \in {"inverse", "mul_inverse"}) =>
    LET C == Mat4Cofactors(mat.m)
        det == Mat4InverseDet(mat.m, C)
    IN /\ det = Det4(mat.m)
       /\ det # Zero =>
            /\ Mat4Mul(mat.m, C) = ScaledIdentity(4, det)
            /\ Mat4Mul(C, mat.m) = ScaledIdentity(4, det)
            /\ op.name = "inverse" =>
                 /\ Mat4Mul(mat.m, result.value) = Identity(4)
                 /\ Mat4Mul(result.value, mat.m) = Identity(4)
            /\ op.name = "mul_inverse" =>
                 /\ result.value = Identity(4)
                 /\ MatIsApprox(4, result.value, Identity(4), ApproxTolerance)

\* a matrix without a zero cell and with a determinant other than 0, 1, -1
\* was inverted
C6_Witness ==
  /\ op.name = "mul_inverse"
  /\ mat.n = 4
  /\ writes = 1
  /\ \A i \in 0 .. 3, j \in 0 .. 3 : mat.m[i][j] # Zero
  /\ Less(One, FAbs(InverseDet(mat)))
  /\ result.value = Identity(4)

----------------------------------------------------------------------------
(* C7: for every singular matrix M (determinant exactly 0) of type Mat3 or *)
(* Mat4, inverse() returns the identity matrix without signalling a        *)
(* failure, so M * M.inverse() equals M exactly and the product is not     *)
(* approximately the identity.                                             *)

C7_SingularInverseIsIdentity ==
  (op.name \in {"inverse", "mul_inverse"} /\ InverseDet(mat) = Zero) =>
    /\ result.failure = "none"
    /\ op.name = "inverse" => result.value = Identity(mat.n)
    /\ op.name = "mul_inverse" =>
         /\ result.value = mat.m
         /\ ~MatIsApprox(mat.n, result.value, Identity(mat.n), ApproxTolerance)

\* the singular 4x4 matrix of the tests, with its two equal rows
C7_Witness ==
  /\ op.name = "mul_inverse"
  /\ mat.n = 4
  /\ mat.m[0] = mat.m[1]
  /\ mat.m[0][1] = I(2)
  /\ InverseDet(mat) = Zero
  /\ result.value = mat.m

C7_WitnessMat3 ==
  /\ op.name = "inverse"
  /\ mat.n = 3
  /\ mat.m[0] = mat.m[1]
  /\ result.value = Identity(3)

----------------------------------------------------------------------------
(* The view-matrix specification: LookAt applied to points of a small grid *)

Coords == {I(-1), I(0), I(1)}

Points == {Vec3(x, y, z) : x \in Coords, y \in Coords, z \in Coords}

InitLookAt ==
  /\ vec = NoObject
  /\ mat = NoObject
  /\ op = [name |-> "idle"]
  /\ result = Nothing
  /\ writes = 0

\* the two lengths LookAt takes are scalars of the model
LookAtExact(eye, center, up) ==
  /\ ExactLength(Vec3Sub(center, eye))
  /\ ExactLength(Vec3Cross(Normalize(Vec3Sub(center, eye)), up))

\* view = Mat4::LookAt(eye, center, up)
LookAt3Call ==
  /\ op.name = "idle"
  /\ \E eye \in Points, center \in Points, up \in Points :
       /\ LookAtExact(eye, center, up)
       /\ op' = [name |-> "look_at", eye |-> eye, center |-> center, up |-> up]
       /\ result' = LookAt(eye, center, up)
  /\ UNCHANGED <<vec, mat, writes>>

\* view = Mat4::LookAt(eye, center)
LookAt2Call ==
  /\ op.name = "idle"
  /\ \E eye \in Points, center \in Points :
       /\ ExactLength(Vec3Sub(center, eye))
       /\ LookAtExact(eye, center, LookAtUpWorld(Normalize(Vec3Sub(center, eye))))
       /\ op' = [name |-> "look_at_default_up", eye |-> eye, center |-> center]
       /\ result' = LookAtDefaultUp(eye, center)
  /\ UNCHANGED <<vec, mat, writes>>

\* forward vectors with a y component at, next to and away from 0.99
ForwardSamples ==
  {Vec3(Zero, y, x) : y \in {Q(99, 100), Q(-99, 100), Q(991, 1000), Q(-991, 1000),
                             Q(989, 1000), I(1), I(-1), Zero},
                      x \in {Zero, Q(1, 10)}}

\* the choice of up_world in Mat4::LookAt(eye, center), for a forward vector
LookAtUpWorldCall ==
  /\ op.name = "idle"
  /\ \E forward \in ForwardSamples :
       /\ op' = [name |-> "up_world", forward |-> forward]
       /\ result' = Returned(LookAtUpWorld(forward))
  /\ UNCHANGED <<vec, mat, writes>>

NextLookAt ==
  \/ LookAt3Call
  \/ LookAt2Call
  \/ LookAtUpWorldCall

SpecLookAt == InitLookAt /\ [][NextLookAt]_vars

----------------------------------------------------------------------------
(* The library specification: every operation of the specifications above *)

InitLib == InitVec \/ InitCtor \/ InitMat \/ InitLookAt

NextLib == NextVec \/ NextCtor \/ NextMat \/ NextLookAt

SpecLib == InitLib /\ [][NextLib]_vars

----------------------------------------------------------------------------
(* C8: the only operations that signal a failure are a vector indexed      *)
(* access with an invalid index and the Mat3 nested-list constructor with  *)
(* a wrong shape; normalized() and normalize() of a zero-length vector,    *)
(* inverse() of a singular or near-singular matrix, and LookAt with eye =  *)
(* center or with up parallel to forward return a value (the zero vector,  *)
(* the identity matrix, a matrix) and signal no failure.                   *)

ZeroVec3 == Vec3(Zero, Zero, Zero)

\* eye = center, or up parallel to the direction from eye to center
LookAtDegenerate(eye, center, up) ==
  \/ eye = center
  \/ Vec3Cross(Vec3Sub(center, eye), up) = ZeroVec3

IsMat4Value(m) ==
  /\ DOMAIN m = 0 .. 3
  /\ \A i \in 0 .. 3 : DOMAIN m[i] = 0 .. 3

C8_OnlyIndexAndMat3ListSignal ==
  /\ result.failure # "none" =>
       \/ /\ IsIndexOp
          /\ op.index \notin 0 .. vec.n - 1
          /\ result = Thrown("out_of_range")
       \/ /\ IsListCtor(3)
          /\ ~Is3x3(op.list)
          /\ result = Thrown("invalid_argument")
  /\ (op.name = "normalized" /\ SquaredLength(vec) = Zero) =>
       result = Returned(VecFill(vec.n, Zero))
  /\ (op.name = "normalize" /\ SquaredLength(op.before) = Zero) =>
       /\ result.failure = "none"
       /\ vec = VecFill(vec.n, Zero)
  /\ (op.name = "inverse" /\ mat.n = 3
        /\ Less(FAbs(Mat3Determinant(mat.m)), Mat3InverseEpsilon)) =>
       result = Returned(Identity(3))
  /\ (op.name = "inverse" /\ mat.n = 4 /\ Det4(mat.m) = Zero) =>
       result = Returned(Identity(4))
  /\ (op.name = "look_at" /\ LookAtDegenerate(op.eye, op.center, op.up)) =>
       /\ result.failure = "none"
       /\ IsMat4Value(result.value)
       /\ result.value[0] = [j \in 0 .. 3 |-> Zero]
  /\ (op.name = "look_at_default_up" /\ op.eye = op.center) =>
       /\ result.failure = "none"
       /\ IsMat4Value(result.value)
       /\ result.value[2] = [j \in 0 .. 3 |-> Zero]

\* LookAt was called with distinct eye and center and an up vector parallel
\* to the direction between them
C8_Witness ==
  /\ op.name = "look_at"
  /\ op.eye # op.center
  /\ op.up # ZeroVec3
  /\ Vec3Cross(Vec3Sub(op.center, op.eye), op.up) = ZeroVec3
  /\ result.failure = "none"
  /\ result.value[2][2] # Zero

\* a zero vector was normalised after the last write the bound allows
C8_WitnessZeroVector ==
  /\ op.name = "normalized"
  /\ writes = MaxVecWrites
  /\ result = Returned(VecFill(vec.n, Zero))

----------------------------------------------------------------------------
(* C9: for every Mat3 and Mat4 M, M * Identity() = M and Identity() * M =  *)
(* M exactly, cell by cell, where Identity() equals the default-           *)
(* constructed matrix.                                                     *)

C9_IdentityIsNeutral ==
  /\ op.name \in {"mul_identity", "identity_mul"} =>
       /\ result.failure = "none"
       /\ \A i \in 0 .. mat.n - 1, j \in 0 .. mat.n - 1 :
            result.value[i][j] = mat.m[i][j]
  /\ \A i \in 0 .. mat.n - 1, j \in 0 .. mat.n - 1 :
       Identity(mat.n)[i][j] = IF i = j THEN I(1) ELSE I(0)

\* a matrix that is not the identity and has no zero cell was multiplied
C9_Witness ==
  /\ op.name = "identity_mul"
  /\ mat.n = 4
  /\ writes = 1
  /\ \A i \in 0 .. 3, j \in 0 .. 3 : mat.m[i][j] # Zero
  /\ result.value = mat.m

----------------------------------------------------------------------------
(* C10: for every Mat3 and Mat4 M, transposed() returns the matrix T with  *)
(* T(i,j) = M(j,i) for all i, j, leaves M unchanged, and                   *)
(* M.transposed().transposed() = M exactly.                                *)

C10_Transposed ==
  /\ [](op.name = "transposed" =>
          \A i \in 0 .. mat.n - 1, j \in 0 .. mat.n - 1 :
            result.value[i][j] = mat.m[j][i])
  /\ [](op.name = "transposed_twice" => result.value = mat.m)
  /\ [][op'.name \in {"transposed", "transposed_twice"} => mat' = mat]_vars

\* a matrix that is not symmetric was transposed
C10_Witness ==
  /\ op.name = "transposed"
  /\ mat.n = 4
  /\ writes = 1
  /\ mat.m[2][3] # mat.m[3][2]
  /\ result.value # mat.m
  /\ result.value[2][3] = mat.m[3][2]

----------------------------------------------------------------------------
(* The second matrix specification: a constructed matrix, cell writes, and *)
(* the operations that build one matrix from another                       *)

\* Mat3::operator*=: the value of *this afterwards
Mat3MulAssign(m, other) == Mat3Mul(m, other)

\* Mat4::operator*=: the value of *this afterwards
Mat4MulAssignRightOperand(m, other) == Mat4Mul(other, m)

Mat4MulAssign(m, other) == Mat4Mul(m, other)

MulAssign(n, m, other) == IF n = 3 THEN Mat3MulAssign(m, other) ELSE Mat4MulAssign(m, other)

\* return *this
RefThis == [ref |-> "this"]

\* Mat4::Mat4(const Mat3<T>& a): the loops over the 3x3 block, then the
\* three assignments of the last column and row, on top of m{}
Mat4FromMat3NoCorner(a) ==
  [i \in 0 .. 3 |-> [j \in 0 .. 3 |->
     IF i < 3 /\ j < 3 THEN a[i][j] ELSE Zero]]

Mat4FromMat3(a) ==
  LET copied == [i \in 0 .. 3 |-> [j \in 0 .. 3 |->
                   IF i < 3 /\ j < 3 THEN a[i][j] ELSE ZeroCells(4)[i][j]]]
      column == [copied EXCEPT ![0][3] = Zero, ![1][3] = Zero, ![2][3] = Zero]
      row == [column EXCEPT ![3][0] = Zero, ![3][1] = Zero, ![3][2] = Zero]
  IN [row EXCEPT ![3][3] = One]

\* Mat4::topLeft3x3: the list constructor of Mat3 applied to three rows of
\* three cells
TopLeft3x3(m) ==
  Mat3ListCtor(<< <<m[0][0], m[0][1], m[0][2]>>,
                  <<m[1][0], m[1][1], m[1][2]>>,
                  <<m[2][0], m[2][1], m[2][2]>> >>)

\* the right operands of the same size as the object
Operands(n) == {a.m : a \in {b \in MatInputs : b.n = n}}

\* a *= b, b another object
MatMulAssign ==
  /\ Built
  /\ \E other \in Operands(mat.n) :
       /\ op' = [name |-> "mul_assign", alias |-> FALSE, before |-> mat.m,
                 other |-> other, other_after |-> other]
       /\ mat' = [mat EXCEPT !.m = MulAssign(mat.n, mat.m, other)]
  /\ result' = Returned(RefThis)
  /\ UNCHANGED <<vec, writes>>

\* a *= a computed in place, one row of the object after the other from a
\* copy of the row: the right operand is the object, so the rows above the
\* current one are read after they were overwritten
RECURSIVE RowBufferedRows(_, _, _)
RowBufferedRows(cur, i, n) ==
  IF i = n THEN cur
  ELSE LET row == cur[i]
           Cell(j) == LET to3 == Add(Add(Mul(row[0], cur[0][j]), Mul(row[1], cur[1][j])),
                                     Mul(row[2], cur[2][j]))
                      IN IF n = 3 THEN to3 ELSE Add(to3, Mul(row[3], cur[3][j]))
       IN RowBufferedRows([cur EXCEPT ![i] = [j \in 0 .. n - 1 |-> Cell(j)]], i + 1, n)

MatMulAssignSelfRowBuffered ==
  /\ Built
  /\ mat' = [mat EXCEPT !.m = RowBufferedRows(mat.m, 0, mat.n)]
  /\ op' = [name |-> "mul_assign", alias |-> TRUE, before |-> mat.m,
            other |-> mat.m, other_after |-> mat'.m]
  /\ result' = Returned(RefThis)
  /\ UNCHANGED <<vec, writes>>

\* a *= a: the right operand is the object itself
MatMulAssignSelf ==
  /\ Built
  /\ mat' = [mat EXCEPT !.m = MulAssign(mat.n, mat.m, mat.m)]
  /\ op' = [name |-> "mul_assign", alias |-> TRUE, before |-> mat.m,
            other |-> mat.m, other_after |-> mat'.m]
  /\ result' = Returned(RefThis)
  /\ UNCHANGED <<vec, writes>>

\* Mat4 b(a) for a Mat3 a
Mat4FromMat3Construct ==
  /\ Built
  /\ mat.n = 3
  /\ op' = [name |-> "mat4_from_mat3"]
  /\ result' = Returned(Mat4FromMat3(mat.m))
  /\ UNCHANGED <<vec, mat, writes>>

\* Mat4(a).topLeft3x3() for a Mat3 a
Mat4FromMat3TopLeft ==
  /\ Built
  /\ mat.n = 3
  /\ op' = [name |-> "mat4_from_mat3_top_left"]
  /\ result' = TopLeft3x3(Mat4FromMat3(mat.m))
  /\ UNCHANGED <<vec, mat, writes>>

\* a.topLeft3x3() for a Mat4 a
MatTopLeft3x3 ==
  /\ Built
  /\ mat.n = 4
  /\ op' = [name |-> "top_left"]
  /\ result' = TopLeft3x3(mat.m)
  /\ UNCHANGED <<vec, mat, writes>>

NextMatOps ==
  \/ \E row \in 0 .. 3, col \in 0 .. 3, value \in Vals : MatSet(row, col, value)
  \/ MatMulAssign
  \/ MatMulAssignSelf
  \/ Mat4FromMat3Construct
  \/ Mat4FromMat3TopLeft
  \/ MatTopLeft3x3

SpecMatOps == InitMat /\ [][NextMatOps]_vars

----------------------------------------------------------------------------
(* C11: after a *= b on Mat3 or Mat4, a equals (old a) * b with the old    *)
(* value of a as the left operand (not b * (old a)), b is unchanged, and   *)
(* the reference returned is a itself.  (b is an object other than a; for  *)
(* a *= a the object becomes (old a) * (old a).)                           *)

C11_MulAssign ==
  op.name = "mul_assign" =>
    /\ mat.m = MatMul(mat.n, op.before, op.other)
    /\ ~op.alias => op.other_after = op.other
    /\ result = Returned(RefThis)

\* the operands do not commute: the order of the product shows
C11_Witness ==
  /\ op.name = "mul_assign"
  /\ mat.n = 4
  /\ ~op.alias
  /\ writes = 1
  /\ Mat4Mul(op.before, op.other) # Mat4Mul(op.other, op.before)
  /\ mat.m = Mat4Mul(op.before, op.other)

----------------------------------------------------------------------------
(* C13: for every Mat3 A, Mat4(A) has cell(i,j) = A(i,j) for i, j in 0..2, *)
(* cells (0,3), (1,3), (2,3), (3,0), (3,1), (3,2) equal to 0 and cell      *)
(* (3,3) equal to 1; Mat4(A).topLeft3x3() = A exactly; and topLeft3x3() of *)
(* any Mat4 returns exactly its cells (i,j) for i, j in 0..2.              *)

C13_Mat3Embedding ==
  /\ op.name = "mat4_from_mat3" =>
       /\ result.failure = "none"
       /\ \A i \in 0 .. 3, j \in 0 .. 3 :
            result.value[i][j] =
              IF i < 3 /\ j < 3 THEN mat.m[i][j]
              ELSE IF i = 3 /\ j = 3 THEN I(1) ELSE I(0)
  /\ op.name = "mat4_from_mat3_top_left" => result = Returned(mat.m)
  /\ op.name = "top_left" =>
       /\ result.failure = "none"
       /\ DOMAIN result.value = 0 .. 2
       /\ \A i \in 0 .. 2, j \in 0 .. 2 : result.value[i][j] = mat.m[i][j]

\* a Mat3 without the identity's corner pattern was embedded
C13_Witness ==
  /\ op.name = "mat4_from_mat3"
  /\ writes = 1
  /\ mat.m[2][2] # One
  /\ mat.m[0][2] # Zero
  /\ result.value[3] = [j \in 0 .. 3 |-> IF j = 3 THEN One ELSE Zero]
  /\ result.value[0][2] = mat.m[0][2]

----------------------------------------------------------------------------
(* The access specification: writes and reads of the cells of a matrix     *)
(* through (row, col), through the flat index and through data()           *)

\* explicit Mat3(T value) / explicit Mat4(T value)
MatFill(n, value) == [i \in 0 .. n - 1 |-> [j \in 0 .. n - 1 |-> value]]

\* T operator[](int index) const of Mat3
Mat3Flat(m, index) == m[index \div 3][index % 3]

\* T& operator[](int index) of Mat3: the cell referred to
Mat3FlatRef(index) == <<index \div 3, index % 3>>

\* T& operator[](int index) of Mat4: the cell referred to
Mat4FlatRefColumnMajor(index) == <<index % 4, index \div 4>>

Mat4FlatRef(index) == <<index \div 4, index % 4>>

\* dispatch on the static type of the object
MatFlat(a, index) == IF a.n = 3 THEN Mat3Flat(a.m, index) ELSE Mat4Flat(a.m, index)

MatFlatRef(a, index) == IF a.n = 3 THEN Mat3FlatRef(index) ELSE Mat4FlatRef(index)

\* std::array<std::array<T, N>, N> m: the place of m[row][col] in the
\* storage of the object, counted in scalars from its start
CellOffset(n, row, col) == row * n + col

\* data(): &m[0][0]
Data(a) == CellOffset(a.n, 0, 0)

\* data()[offset]: the cell stored offset scalars after data()
DataAt(a, offset) ==
  LET cell == CHOOSE c \in (0 .. a.n - 1) \X (0 .. a.n - 1) :
                CellOffset(a.n, c[1], c[2]) = Data(a) + offset
  IN a.m[cell[1]][cell[2]]

\* the matrices of the DataPointer tests and of the list constructor tests
AccessInputs ==
  { Mat3Obj(MatFill(3, One)), Mat4Obj(MatFill(4, One)),
    Mat3Obj(Mat3ListCtor(ListOfInts(<< <<1, 2, 3>>, <<4, 5, 6>>, <<7, 8, 9>> >>, 1)).value),
    Mat4Obj(Mat4ListCtor(ListOfInts(<< <<1, 2, 3, 4>>, <<5, 6, 7, 8>>,
                                       <<9, 10, 11, 12>>, <<13, 14, 15, 16>> >>, 1)).value) }

InitAccess ==
  /\ vec = NoObject
  /\ mat \in AccessInputs
  /\ op = [name |-> "construct"]
  /\ result = Nothing
  /\ writes = 0

\* m[index] = value
MatFlatSet(index, value) ==
  /\ Built
  /\ writes < MaxMatWrites
  /\ index < mat.n * mat.n
  /\ op' = [name |-> "flat_set", index |-> index, value |-> value]
  /\ LET ref == MatFlatRef(mat, index)
     IN mat' = [mat EXCEPT !.m[ref[1]][ref[2]] = value]
  /\ result' = Nothing
  /\ writes' = writes + 1
  /\ UNCHANGED vec

\* x = m[index] on a const matrix
MatFlatRead(index) ==
  /\ Built
  /\ index < mat.n * mat.n
  /\ op' = [name |-> "flat_read", index |-> index]
  /\ result' = Returned(MatFlat(mat, index))
  /\ UNCHANGED <<vec, mat, writes>>

\* x = m.data()[offset]
MatDataRead(offset) ==
  /\ Built
  /\ offset < mat.n * mat.n
  /\ op' = [name |-> "data_read", offset |-> offset, data |-> Data(mat)]
  /\ result' = Returned(DataAt(mat, offset))
  /\ UNCHANGED <<vec, mat, writes>>

NextAccess ==
  \/ \E row \in 0 .. 3, col \in 0 .. 3, value \in Vals : MatSet(row, col, value)
  \/ \E index \in 0 .. 15, value \in Vals : MatFlatSet(index, value)
  \/ \E index \in 0 .. 15 : MatFlatRead(index)
  \/ \E offset \in 0 .. 15 : MatDataRead(offset)

SpecAccess == InitAccess /\ [][NextAccess]_vars

----------------------------------------------------------------------------
(* C12: after any sequence of writes through (row, col) access and flat-   *)
(* index access on a Mat3 (N = 3) or Mat4 (N = 4), for every valid k, row, *)
(* col: the flat read [k] equals cell(k / N, k % N), data()[row*N + col]   *)
(* equals cell(row, col), data() points at cell(0,0), and each write       *)
(* changed exactly one cell.                                               *)

\* every cell but (row, col) is as it was, and (row, col) holds the value
OnlyCellWritten(row, col, value) ==
  \A i \in 0 .. mat.n - 1, j \in 0 .. mat.n - 1 :
    mat'.m[i][j] = IF i = row /\ j = col THEN value ELSE mat.m[i][j]

C12_RowMajorAccess ==
  /\ [](mat.n > 0 =>
          /\ \A k \in 0 .. mat.n * mat.n - 1 :
               MatFlat(mat, k) = mat.m[k \div mat.n][k % mat.n]
          /\ \A row \in 0 .. mat.n - 1, col \in 0 .. mat.n - 1 :
               DataAt(mat, row * mat.n + col) = mat.m[row][col])
  /\ [](op.name = "flat_read" =>
          result = Returned(mat.m[op.index \div mat.n][op.index % mat.n]))
  /\ [](op.name = "data_read" =>
          /\ result = Returned(mat.m[op.offset \div mat.n][op.offset % mat.n])
          /\ op.data = CellOffset(mat.n, 0, 0))
  /\ [][op'.name = "set" => OnlyCellWritten(op'.row, op'.col, op'.value)]_vars
  /\ [][op'.name = "flat_set" =>
          OnlyCellWritten(op'.index \div mat.n, op'.index % mat.n, op'.value)]_vars

\* the cell written through the flat index 7 of a Mat4 was read at (1, 3)
C12_Witness ==
  /\ op.name = "flat_set"
  /\ mat.n = 4
  /\ op.index = 7
  /\ writes = 1
  /\ mat.m[1][3] = op.value
  /\ mat.m[3][1] # op.value
  /\ DataAt(mat, 7) = op.value

----------------------------------------------------------------------------
(* The comparison specification: isApprox of vectors and of matrices       *)

\* std::fabs(a - b) < epsilon
Near(a, b, epsilon) == Less(FAbs(Sub(a, b)), epsilon)

\* Vec2::isApprox
Vec2IsApprox(u, other, epsilon) ==
  Near(u.x, other.x, epsilon) /\ Near(u.y, other.y, epsilon)

\* Vec3::isApprox
Vec3IsApproxNonStrict(u, other, epsilon) ==
  /\ ~Greater(FAbs(Sub(u.x, other.x)), epsilon)
  /\ ~Greater(FAbs(Sub(u.y, other.y)), epsilon)
  /\ ~Greater(FAbs(Sub(u.z, other.z)), epsilon)

Vec3IsApprox(u, other, epsilon) ==
  Near(u.x, other.x, epsilon) /\ Near(u.y, other.y, epsilon) /\ Near(u.z, other.z, epsilon)

\* Vec4::isApprox
Vec4IsApprox(u, other, epsilon) ==
  /\ Near(u.x, other.x, epsilon) /\ Near(u.y, other.y, epsilon)
  /\ Near(u.z, other.z, epsilon) /\ Near(u.w, other.w, epsilon)

\* dispatch on the static type of the vector
VecIsApprox(u, other, epsilon) ==
  CASE u.n = 2 -> Vec2IsApprox(u, other, epsilon)
    [] u.n = 3 -> Vec3IsApprox(u, other, epsilon)
    [] u.n = 4 -> Vec4IsApprox(u, other, epsilon)

\* the names of the components of a vector
Fields(u) ==
  CASE u.n = 2 -> {"x", "y"}
    [] u.n = 3 -> {"x", "y", "z"}
    [] u.n = 4 -> {"x", "y", "z", "w"}

\* the tolerances passed to isApprox
Epsilons == {I(0), Q(1, 2), I(1), I(2), I(3)}

\* the vector itself, and the vectors that differ from it in one component
VecOthers(u) == {u} \cup {[u EXCEPT ![c] = v] : c \in Fields(u), v \in Vals}

\* the matrix itself, and the matrices that differ from it by 1 in one cell
MatOthers(a) ==
  {a.m} \cup {[a.m EXCEPT ![i][j] = Add(@, delta)] :
                i \in 0 .. a.n - 1, j \in 0 .. a.n - 1, delta \in {I(1), I(-1)}}

InitApprox == InitVec \/ InitMat

\* v.isApprox(other, epsilon)
VecIsApproxCall ==
  /\ VecBuilt
  /\ \E other \in VecOthers(vec), epsilon \in Epsilons :
       /\ op' = [name |-> "vec_is_approx", other |-> other, epsilon |-> epsilon]
       /\ result' = Returned(VecIsApprox(vec, other, epsilon))
  /\ UNCHANGED <<vec, mat, writes>>

\* m.isApprox(other, epsilon)
MatIsApproxCall ==
  /\ Built
  /\ \E other \in MatOthers(mat), epsilon \in Epsilons :
       /\ op' = [name |-> "mat_is_approx", other |-> other, epsilon |-> epsilon]
       /\ result' = Returned(MatIsApprox(mat.n, mat.m, other, epsilon))
  /\ UNCHANGED <<vec, mat, writes>>

NextApprox ==
  \/ VecIsApproxCall
  \/ MatIsApproxCall

SpecApprox == InitApprox /\ [][NextApprox]_vars

----------------------------------------------------------------------------
(* C14: vector isApprox is strict and matrix isApprox is non-strict: when  *)
(* some component's absolute difference equals epsilon exactly,            *)
(* VecN::isApprox returns false while Mat3/Mat4::isApprox returns true     *)
(* (all other cells within epsilon); in particular v.isApprox(v, 0) is     *)
(* false for every vector v and M.isApprox(M, 0) is true for every matrix  *)
(* M.                                                                      *)

\* |a - b|
Distance(a, b) == FAbs(Sub(a, b))

C14_ApproxStrictness ==
  /\ op.name = "vec_is_approx" =>
       /\ result.value =
            (\A c \in Fields(vec) : Less(Distance(vec[c], op.other[c]), op.epsilon))
       /\ (\E c \in Fields(vec) : Distance(vec[c], op.other[c]) = op.epsilon) =>
            result = Returned(FALSE)
       /\ (op.other = vec /\ op.epsilon = Zero) => result = Returned(FALSE)
  /\ op.name = "mat_is_approx" =>
       LET Cells == (0 .. mat.n - 1) \X (0 .. mat.n - 1)
           Within(c) ==
             \/ Less(Distance(mat.m[c[1]][c[2]], op.other[c[1]][c[2]]), op.epsilon)
             \/ Distance(mat.m[c[1]][c[2]], op.other[c[1]][c[2]]) = op.epsilon
       IN /\ result.value = (\A c \in Cells : Within(c))
          /\ (op.other = mat.m /\ op.epsilon = Zero) => result = Returned(TRUE)

\* a Vec3 was compared with one that differs by exactly epsilon = 1 in one
\* component
C14_Witness ==
  /\ op.name = "vec_is_approx"
  /\ vec.n = 3
  /\ op.epsilon = One
  /\ Distance(vec.z, op.other.z) = One
  /\ op.other.x = vec.x
  /\ op.other.y = vec.y
  /\ result = Returned(FALSE)

\* a Mat4 was compared with one that differs by exactly epsilon = 1 in one
\* cell
C14_WitnessMat ==
  /\ op.name = "mat_is_approx"
  /\ mat.n = 4
  /\ op.epsilon = One
  /\ op.other # mat.m
  /\ result = Returned(TRUE)

----------------------------------------------------------------------------
(* C15: for each arity, normalized() of the all-zero vector returns the    *)
(* all-zero vector exactly and leaves the receiver unchanged, and          *)
(* normalize() applied in place to the all-zero vector leaves it the       *)
(* all-zero vector; for a vector of non-zero length both produce the same  *)
(* value, every component divided by length().                             *)

IsZeroVec(u) == u = VecFill(u.n, Zero)

C15_NormalizeZeroAndNonZero ==
  /\ [](op.name = "normalized" =>
          IF IsZeroVec(vec) THEN result = Returned(VecFill(vec.n, Zero))
          ELSE /\ result = Returned(VecDiv(vec, Length(vec)))
               /\ SquaredLength(result.value) = One)
  /\ [](op.name = "normalize" =>
          IF IsZeroVec(op.before) THEN IsZeroVec(vec)
          ELSE /\ vec = VecDiv(op.before, Length(op.before))
               /\ Returned(vec) = Normalized(op.before)
               /\ SquaredLength(vec) = One)
  /\ [][op'.name = "normalized" => vec' = vec]_vars

\* a Vec3 of length 3 was normalised in place
C15_Witness ==
  /\ op.name = "normalize"
  /\ vec.n = 3
  /\ SquaredLength(op.before) = I(9)
  /\ vec # op.before
  /\ SquaredLength(vec) = One
  /\ vec.x # Zero /\ vec.y # Zero /\ vec.z # Zero

\* the zero Vec4 was normalised in place
C15_WitnessZero ==
  /\ op.name = "normalize"
  /\ vec.n = 4
  /\ IsZeroVec(op.before)
  /\ IsZeroVec(vec)

----------------------------------------------------------------------------
(* C16: LookAt(eye, center, up) returns the matrix whose row 0 is (side,   *)
(* -dot(side, eye)), row 1 is (trueUp, -dot(trueUp, eye)), row 2 is        *)
(* (-forward, +dot(forward, eye)) and row 3 is (0,0,0,1), where forward =  *)
(* normalize(center - eye), side = normalize(cross(forward, up)) and       *)
(* trueUp = cross(side, forward); for eye = (0,0,0), center = (0,0,-1),    *)
(* up = (0,1,0) the result is the identity matrix.                         *)

\* dot(a, b) of two Vec3
Vec3DotDropsZ(a, b) == Add(Mul(a.x, b.x), Mul(a.y, b.y))

Vec3Dot(a, b) == Add(Add(Mul(a.x, b.x), Mul(a.y, b.y)), Mul(a.z, b.z))

\* the row (u.x, u.y, u.z, t) of a Mat4
Row4(u, t) == [j \in 0 .. 3 |-> <<u.x, u.y, u.z, t>>[j + 1]]

C16_LookAtRows ==
  op.name = "look_at" =>
    LET forward == Normalized(Vec3Sub(op.center, op.eye)).value
        side == Normalized(Vec3Cross(forward, op.up)).value
        trueUp == Vec3Cross(side, forward)
        minusForward == Vec3(Neg(forward.x), Neg(forward.y), Neg(forward.z))
    IN /\ result.failure = "none"
       /\ result.value[0] = Row4(side, Neg(Vec3Dot(side, op.eye)))
       /\ result.value[1] = Row4(trueUp, Neg(Vec3Dot(trueUp, op.eye)))
       /\ result.value[2] = Row4(minusForward, Vec3Dot(forward, op.eye))
       /\ result.value[3] = Row4(ZeroVec3, One)
       /\ (/\ op.eye = ZeroVec3
           /\ op.center = Vec3(Zero, Zero, I(-1))
           /\ op.up = Vec3(Zero, One, Zero)) => result = Returned(Identity(4))

\* a camera away from the origin, with a translation column that is not 0
C16_Witness ==
  /\ op.name = "look_at"
  /\ op.eye = Vec3(One, One, One)
  /\ op.center = Vec3(One, One, I(-1))
  /\ op.up = Vec3(Zero, One, Zero)
  /\ result.value[0][3] = I(-1)
  /\ result.value[2][3] = I(-1)

\* the camera of the claim: at the origin, looking down -Z
C16_WitnessIdentity ==
  /\ op.name = "look_at"
  /\ op.eye = ZeroVec3
  /\ op.center = Vec3(Zero, Zero, I(-1))
  /\ op.up = Vec3(Zero, One, Zero)
  /\ result = Returned(Identity(4))

----------------------------------------------------------------------------
(* C17: LookAt(eye, center) equals LookAt(eye, center, up0) where up0 =    *)
(* (0,0,1) when |forward.y| > 0.99 (strictly) and up0 = (0,1,0) otherwise, *)
(* with forward = normalize(center - eye); in particular a camera looking  *)
(* straight along +Y or -Y uses (0,0,1).                                   *)

C17_DefaultUp ==
  /\ op.name = "look_at_default_up" =>
       LET forward == Normalized(Vec3Sub(op.center, op.eye)).value
           up0 == IF Less(Q(99, 100), FAbs(forward.y)) THEN Vec3(Zero, Zero, One)
                  ELSE Vec3(Zero, One, Zero)
       IN /\ result = LookAt(op.eye, op.center, up0)
          /\ (forward.x = Zero /\ forward.z = Zero /\ forward.y # Zero) =>
               /\ up0 = Vec3(Zero, Zero, One)
               /\ result # LookAt(op.eye, op.center, Vec3(Zero, One, Zero))
  /\ op.name = "up_world" =>
       result.value = IF Less(Q(99, 100), FAbs(op.forward.y)) THEN Vec3(Zero, Zero, One)
                      ELSE Vec3(Zero, One, Zero)
  /\ (op.name = "up_world" /\ FAbs(op.forward.y) = Q(99, 100)) =>
       result.value = Vec3(Zero, One, Zero)

\* a camera looking straight down -Y
C17_Witness ==
  /\ op.name = "look_at_default_up"
  /\ op.eye = Vec3(One, One, Zero)
  /\ op.center = Vec3(One, I(-1), Zero)
  /\ result = LookAt(op.eye, op.center, Vec3(Zero, Zero, One))
  /\ result.value[0] # [j \in 0 .. 3 |-> Zero]

\* a forward vector with y exactly 0.99
C17_WitnessThreshold ==
  /\ op.name = "up_world"
  /\ op.forward.y = Q(99, 100)
  /\ result = Returned(Vec3(Zero, One, Zero))

----------------------------------------------------------------------------
(* The projection specification: the static builders Orthographic and      *)
(* Perspective                                                             *)

\* Mat4::Orthographic
Orthographic(left, right, bottom, top, near, far) ==
  LET ortho == Identity(4)
  IN [ortho EXCEPT
        ![0][0] = Div(I(2), Sub(right, left)),
        ![1][1] = Div(I(2), Sub(top, bottom)),
        ![2][2] = Div(I(-2), Sub(far, near)),
        ![0][3] = Div(Neg(Add(right, left)), Sub(right, left)),
        ![1][3] = Div(Neg(Add(top, bottom)), Sub(top, bottom)),
        ![2][3] = Div(Neg(Add(far, near)), Sub(far, near))]

\* an angle fov_y, given by the tangent of its half
Fov(half_tan) == [half_tan |-> half_tan]

\* std::tan(fov_y / 2)
TanHalf(fov_y) == fov_y.half_tan

\* Mat4::Perspective
PerspectiveKeepsCorner(fov_y, aspect, near, far) ==
  LET inv_tan_half_fov_y == Div(One, TanHalf(fov_y))
      persp == Identity(4)
  IN [persp EXCEPT
        ![0][0] = Div(inv_tan_half_fov_y, aspect),
        ![1][1] = inv_tan_half_fov_y,
        ![2][2] = Div(Neg(Add(far, near)), Sub(far, near)),
        ![2][3] = Div(Neg(Mul(Mul(I(2), far), near)), Sub(far, near)),
        ![3][2] = I(-1)]

Perspective(fov_y, aspect, near, far) ==
  LET inv_tan_half_fov_y == Div(One, TanHalf(fov_y))
      persp == Identity(4)
  IN [persp EXCEPT
        ![0][0] = Div(inv_tan_half_fov_y, aspect),
        ![1][1] = inv_tan_half_fov_y,
        ![2][2] = Div(Neg(Add(far, near)), Sub(far, near)),
        ![2][3] = Div(Neg(Mul(Mul(I(2), far), near)), Sub(far, near)),
        ![3][2] = I(-1),
        ![3][3] = Zero]

\* clipping planes; the two of a pair differ, as the builders divide by
\* their difference
Planes == {I(-2), I(-1), I(1), I(3)}

\* near and far distances of Perspective
Distances == {Q(1, 10), I(1), I(10), I(100)}

\* fov_y = 90 degrees has the half tangent 1
Fovs == {Fov(Q(1, 2)), Fov(One), Fov(I(2))}

Aspects == {One, Q(4, 3), Q(16, 9)}

\* proj = Mat4::Orthographic(left, right, bottom, top, near, far)
OrthographicCall ==
  /\ op.name = "idle"
  /\ \E left \in Planes, right \in Planes, bottom \in Planes, top \in Planes,
        near \in Planes, far \in Planes :
       /\ left # right
       /\ bottom # top
       /\ near # far
       /\ op' = [name |-> "orthographic", left |-> left, right |-> right,
                 bottom |-> bottom, top |-> top, near |-> near, far |-> far]
       /\ result' = Returned(Orthographic(left, right, bottom, top, near, far))
  /\ UNCHANGED <<vec, mat, writes>>

\* proj = Mat4::Perspective(fov_y, aspect, near, far)
PerspectiveCall ==
  /\ op.name = "idle"
  /\ \E fov_y \in Fovs, aspect \in Aspects, near \in Distances, far \in Distances :
       /\ near # far
       /\ op' = [name |-> "perspective", fov_y |-> fov_y, aspect |-> aspect,
                 near |-> near, far |-> far]
       /\ result' = Returned(Perspective(fov_y, aspect, near, far))
  /\ UNCHANGED <<vec, mat, writes>>

NextProjection ==
  \/ OrthographicCall
  \/ PerspectiveCall

SpecProjection == InitLookAt /\ [][NextProjection]_vars

----------------------------------------------------------------------------
(* C18: the projection builders write only their listed cells on top of an *)
(* identity default: Orthographic sets exactly cells (0,0), (1,1), (2,2),  *)
(* (0,3), (1,3), (2,3) and leaves every other cell at its identity value,  *)
(* so its last row is (0,0,0,1); Perspective sets exactly cells (0,0),     *)
(* (1,1), (2,2), (2,3), (3,2) = -1 and (3,3) = 0, so its last row is       *)
(* (0,0,-1,0) and every other cell is 0.                                   *)

OrthographicCells == {<<0, 0>>, <<1, 1>>, <<2, 2>>, <<0, 3>>, <<1, 3>>, <<2, 3>>}

PerspectiveCells == {<<0, 0>>, <<1, 1>>, <<2, 2>>, <<2, 3>>, <<3, 2>>, <<3, 3>>}

C18_ProjectionCells ==
  /\ op.name = "orthographic" =>
       /\ \A i \in 0 .. 3, j \in 0 .. 3 :
            <<i, j>> \notin OrthographicCells =>
              result.value[i][j] = IF i = j THEN I(1) ELSE I(0)
       /\ result.value[3] = [j \in 0 .. 3 |-> IF j = 3 THEN I(1) ELSE I(0)]
       /\ result.value[0][0] = Div(I(2), Sub(op.right, op.left))
       /\ result.value[1][1] = Div(I(2), Sub(op.top, op.bottom))
       /\ result.value[2][2] = Neg(Div(I(2), Sub(op.far, op.near)))
       /\ result.value[0][3] = Neg(Div(Add(op.right, op.left), Sub(op.right, op.left)))
       /\ result.value[1][3] = Neg(Div(Add(op.top, op.bottom), Sub(op.top, op.bottom)))
       /\ result.value[2][3] = Neg(Div(Add(op.far, op.near), Sub(op.far, op.near)))
  /\ op.name = "perspective" =>
       /\ \A i \in 0 .. 3, j \in 0 .. 3 :
            <<i, j>> \notin PerspectiveCells => result.value[i][j] = I(0)
       /\ result.value[3] = [j \in 0 .. 3 |-> IF j = 2 THEN I(-1) ELSE I(0)]
       /\ result.value[1][1] = Div(One, op.fov_y.half_tan)
       /\ result.value[0][0] = Div(result.value[1][1], op.aspect)
       /\ result.value[2][2] = Neg(Div(Add(op.far, op.near), Sub(op.far, op.near)))
       /\ result.value[2][3] =
            Neg(Div(Mul(I(2), Mul(op.far, op.near)), Sub(op.far, op.near)))

\* a perspective matrix whose written cells all differ from the identity's
C18_Witness ==
  /\ op.name = "perspective"
  /\ op.aspect # One
  /\ op.fov_y # Fov(One)
  /\ result.value[3] = [j \in 0 .. 3 |-> IF j = 2 THEN I(-1) ELSE I(0)]
  /\ result.value[0][0] # result.value[1][1]
  /\ result.value[2][3] # Zero

\* an orthographic matrix of a volume that is not centred
C18_WitnessOrthographic ==
  /\ op.name = "orthographic"
  /\ result.value[0][3] # Zero
  /\ result.value[1][3] # Zero
  /\ result.value[2][3] # Zero
  /\ result.value[0][0] # One
  /\ result.value[3][3] = One

----------------------------------------------------------------------------
(* The second vector specification: the component-wise functions and the   *)
(* cross product applied to constructed vectors                            *)

\* std::fmin, std::fmax
FMin(a, b) == IF Less(b, a) THEN b ELSE a

FMax(a, b) == IF Less(a, b) THEN b ELSE a

\* cwiseMin of two Vec2, Vec3 or Vec4: std::fmin of each pair of components
CwiseMin(a, b) == [c \in DOMAIN a |-> IF c = "n" THEN a.n ELSE FMin(a[c], b[c])]

\* cwiseMax of two Vec2, Vec3 or Vec4: std::fmax of each pair of components
CwiseMax(a, b) == [c \in DOMAIN a |-> IF c = "n" THEN a.n ELSE FMax(a[c], b[c])]

\* cwiseClamp(a, min, max)
CwiseClampMinFirst(a, min, max) == CwiseMax(CwiseMin(a, max), min)

CwiseClamp(a, min, max) == CwiseMin(CwiseMax(a, min), max)

\* the bounds passed to cwiseClamp
ClampBounds(n) ==
  CASE n = 2 -> {Vec2(x, y) : x \in {Zero, One}, y \in {Zero, One}}
    [] n = 3 -> {Vec3(x, y, z) : x \in {Zero, One}, y \in {Zero, One}, z \in {Zero, One}}
    [] n = 4 -> {Vec4(x, y, z, w) : x \in {Zero, One}, y \in {Zero, One},
                                    z \in {Zero, One}, w \in {Zero, One}}

\* r = cwiseClamp(v, min, max)
VecCwiseClampCall ==
  /\ VecBuilt
  /\ \E min \in ClampBounds(vec.n), max \in ClampBounds(vec.n) :
       /\ op' = [name |-> "cwise_clamp", min |-> min, max |-> max]
       /\ result' = Returned(CwiseClamp(vec, min, max))
  /\ UNCHANGED <<vec, mat, writes>>

\* r = v.cross(other)
VecCrossCall ==
  /\ VecBuilt
  /\ vec.n = 3
  /\ \E other \in {u \in VecInputs : u.n = 3} :
       /\ op' = [name |-> "cross", other |-> other]
       /\ result' = Returned(Vec3Cross(vec, other))
  /\ UNCHANGED <<vec, mat, writes>>

NextVecOps ==
  \/ VecCwiseClampCall
  \/ VecCrossCall

SpecVecOps == InitVec /\ [][NextVecOps]_vars

----------------------------------------------------------------------------
(* C19: cwiseClamp(a, lo, hi) equals cwiseMin(cwiseMax(a, lo), hi) for     *)
(* every arity: when lo <= hi component-wise every result component lies   *)
(* in [lo, hi] and equals a's component if that is already in range; when  *)
(* lo > hi in a component the result component is hi (the upper bound      *)
(* wins).                                                                  *)

\* a <= b
AtMost(a, b) == ~Less(b, a)

C19_ClampIsMinOfMax ==
  op.name = "cwise_clamp" =>
    /\ result.failure = "none"
    /\ result.value.n = vec.n
    /\ \A c \in Fields(vec) :
         LET a == vec[c]
             lo == op.min[c]
             hi == op.max[c]
             r == result.value[c]
         IN /\ r = FMin(FMax(a, lo), hi)
            /\ AtMost(lo, hi) =>
                 /\ AtMost(lo, r) /\ AtMost(r, hi)
                 /\ (AtMost(lo, a) /\ AtMost(a, hi)) => r = a
            /\ Less(hi, lo) => r = hi

\* in one component the bounds are crossed and the value lies above both,
\* in another the value is below the range
C19_Witness ==
  /\ op.name = "cwise_clamp"
  /\ vec.n = 3
  /\ vec.x = I(2) /\ op.min.x = One /\ op.max.x = Zero
  /\ vec.y = I(-1) /\ op.min.y = Zero /\ op.max.y = One
  /\ result.value.x = Zero
  /\ result.value.y = Zero

----------------------------------------------------------------------------
(* C20: for all Vec3 a, b, a.cross(b) equals (a.y*b.z - a.z*b.y, a.z*b.x - *)
(* a.x*b.z, a.x*b.y - a.y*b.x) and leaves a and b unchanged; hence it is   *)
(* right-handed (x cross y = z), anti-commutative (a.cross(b) =            *)
(* -(b.cross(a))) and dot(a, a.cross(b)) = 0 = dot(b, a.cross(b)) in exact *)
(* arithmetic.                                                             *)

\* -u
Vec3Neg(u) == Vec3(Neg(u.x), Neg(u.y), Neg(u.z))

C20_CrossProduct ==
  /\ [](op.name = "cross" =>
          LET a == vec
              b == op.other
          IN /\ result = Returned(Vec3(Sub(Mul(a.y, b.z), Mul(a.z, b.y)),
                                       Sub(Mul(a.z, b.x), Mul(a.x, b.z)),
                                       Sub(Mul(a.x, b.y), Mul(a.y, b.x))))
             /\ result.value = Vec3Neg(Vec3Cross(b, a))
             /\ Vec3Dot(a, result.value) = Zero
             /\ Vec3Dot(b, result.value) = Zero
             /\ (a = Vec3(One, Zero, Zero) /\ b = Vec3(Zero, One, Zero)) =>
                  result.value = Vec3(Zero, Zero, One))
  /\ [][op'.name = "cross" => vec' = vec]_vars

\* two vectors that are not parallel, without a zero component in the product
C20_Witness ==
  /\ op.name = "cross"
  /\ vec = Vec3(One, I(2), I(-1))
  /\ op.other = Vec3(I(2), I(-1), One)
  /\ result.value = Vec3(I(1), I(-3), I(-5))

\* x cross y = z
C20_WitnessRightHanded ==
  /\ op.name = "cross"
  /\ vec = Vec3(One, Zero, Zero)
  /\ op.other = Vec3(Zero, One, Zero)
  /\ result.value = Vec3(Zero, Zero, One)

----------------------------------------------------------------------------
(* The free functions of linalg.hpp on vectors and matrices *)

\* toVec3(const Vec4<T>& vec)
ToVec3(u) == Vec3(u.x, u.y, u.z)

\* toVec4(const Vec3<T>& vec)
ToVec4NoW(u) == Vec4(u.x, u.y, u.z, Zero)

ToVec4(u) == Vec4(u.x, u.y, u.z, One)

\* operator*(T scalar, const Vec3<T>& vec)
ScalarTimesVec3SkipsZ(scalar, u) == Vec3(Mul(u.x, scalar), Mul(u.y, scalar), u.z)

ScalarTimesVec3(scalar, u) == Vec3(Mul(u.x, scalar), Mul(u.y, scalar), Mul(u.z, scalar))

\* operator*(const Mat3<T>& mat, const Vec3<T>& vec)
Mat3TimesVec3(m, u) ==
  Vec3(Add(Add(Mul(m[0][0], u.x), Mul(m[0][1], u.y)), Mul(m[0][2], u.z)),
       Add(Add(Mul(m[1][0], u.x), Mul(m[1][1], u.y)), Mul(m[1][2], u.z)),
       Add(Add(Mul(m[2][0], u.x), Mul(m[2][1], u.y)), Mul(m[2][2], u.z)))

\* operator*(const Mat4<T>& mat, const Vec4<T>& vec)
Mat4TimesVec4DropsW(m, u) ==
  Vec4(Add(Add(Mul(m[0][0], u.x), Mul(m[0][1], u.y)), Mul(m[0][2], u.z)),
       Add(Add(Mul(m[1][0], u.x), Mul(m[1][1], u.y)), Mul(m[1][2], u.z)),
       Add(Add(Mul(m[2][0], u.x), Mul(m[2][1], u.y)), Mul(m[2][2], u.z)),
       Add(Add(Mul(m[3][0], u.x), Mul(m[3][1], u.y)), Mul(m[3][2], u.z)))

Mat4TimesVec4(m, u) ==
  Vec4(Add(Add(Add(Mul(m[0][0], u.x), Mul(m[0][1], u.y)), Mul(m[0][2], u.z)), Mul(m[0][3], u.w)),
       Add(Add(Add(Mul(m[1][0], u.x), Mul(m[1][1], u.y)), Mul(m[1][2], u.z)), Mul(m[1][3], u.w)),
       Add(Add(Add(Mul(m[2][0], u.x), Mul(m[2][1], u.y)), Mul(m[2][2], u.z)), Mul(m[2][3], u.w)),
       Add(Add(Add(Mul(m[3][0], u.x), Mul(m[3][1], u.y)), Mul(m[3][2], u.z)), Mul(m[3][3], u.w)))

\* An angle is given by its sine and cosine, a rational point of the unit
\* circle: std::sin and std::cos read them off.
Angle(sin, cos) == [sin |-> sin, cos |-> cos]

Sin(angle) == angle.sin

Cos(angle) == angle.cos

\* getRotationMatrix(x_angle, y_angle, z_angle)
GetRotationMatrixXYZ(x_angle, y_angle, z_angle) ==
  LET sin_x == Sin(x_angle)
      cos_x == Cos(x_angle)
      sin_y == Sin(y_angle)
      cos_y == Cos(y_angle)
      sin_z == Sin(z_angle)
      cos_z == Cos(z_angle)
      rx == Mat3ListCtor(<< <<One, Zero, Zero>>, <<Zero, cos_x, Neg(sin_x)>>,
                            <<Zero, sin_x, cos_x>> >>).value
      ry == Mat3ListCtor(<< <<cos_y, Zero, sin_y>>, <<Zero, One, Zero>>,
                            <<Neg(sin_y), Zero, cos_y>> >>).value
      rz == Mat3ListCtor(<< <<cos_z, Neg(sin_z), Zero>>, <<sin_z, cos_z, Zero>>,
                            <<Zero, Zero, One>> >>).value
  IN Mat3Mul(Mat3Mul(rx, ry), rz)

GetRotationMatrix(x_angle, y_angle, z_angle) ==
  LET sin_x == Sin(x_angle)
      cos_x == Cos(x_angle)
      sin_y == Sin(y_angle)
      cos_y == Cos(y_angle)
      sin_z == Sin(z_angle)
      cos_z == Cos(z_angle)
      rx == Mat3ListCtor(<< <<One, Zero, Zero>>, <<Zero, cos_x, Neg(sin_x)>>,
                            <<Zero, sin_x, cos_x>> >>).value
      ry == Mat3ListCtor(<< <<cos_y, Zero, sin_y>>, <<Zero, One, Zero>>,
                            <<Neg(sin_y), Zero, cos_y>> >>).value
      rz == Mat3ListCtor(<< <<cos_z, Neg(sin_z), Zero>>, <<sin_z, cos_z, Zero>>,
                            <<Zero, Zero, One>> >>).value
  IN Mat3Mul(Mat3Mul(rz, ry), rx)

\* the angles 0, pi/2, pi, -pi/2 and four angles of the triangles 3-4-5 and
\* 5-12-13
Angles ==
  { Angle(Zero, One), Angle(One, Zero), Angle(Zero, I(-1)), Angle(I(-1), Zero),
    Angle(Q(3, 5), Q(4, 5)), Angle(Q(4, 5), Q(-3, 5)), Angle(Q(-3, 5), Q(4, 5)),
    Angle(Q(5, 13), Q(12, 13)) }

\* the vectors a rotation is applied to
RotatedVectors == {Vec3(One, Zero, Zero), Vec3(Zero, One, Zero), Vec3(Zero, Zero, One),
                   Vec3(I(1), I(2), I(-1))}

\* rot = getRotationMatrix(x_angle, y_angle, z_angle)
GetRotationMatrixCall ==
  /\ op.name = "idle"
  /\ \E x_angle \in Angles, y_angle \in Angles, z_angle \in Angles :
       /\ op' = [name |-> "rotation", x_angle |-> x_angle, y_angle |-> y_angle,
                 z_angle |-> z_angle]
       /\ result' = Returned(GetRotationMatrix(x_angle, y_angle, z_angle))
  /\ UNCHANGED <<vec, mat, writes>>

\* getRotationMatrix(x_angle, y_angle, z_angle) * v
RotateCall ==
  /\ op.name = "idle"
  /\ \E x_angle \in Angles, y_angle \in Angles, z_angle \in Angles, v \in RotatedVectors :
       /\ op' = [name |-> "rotate", x_angle |-> x_angle, y_angle |-> y_angle,
                 z_angle |-> z_angle, v |-> v]
       /\ result' = Returned(Mat3TimesVec3(GetRotationMatrix(x_angle, y_angle, z_angle), v))
  /\ UNCHANGED <<vec, mat, writes>>

NextRotation ==
  \/ GetRotationMatrixCall
  \/ RotateCall

SpecRotation == InitLookAt /\ [][NextRotation]_vars

----------------------------------------------------------------------------
(* C21: getRotationMatrix(x, y, z) is the product Rz * Ry * Rx of the      *)
(* elemental right-handed rotations, so that applied to a vector the       *)
(* rotation about X acts first and the rotation about Z last; the result R *)
(* is orthogonal (R * R.transposed() is the identity), and                 *)
(* getRotationMatrix(0, 0, 0) is the identity.                             *)

\* the elemental right-handed rotations, as cells indexed from 0
ElementalX(s, c) ==
  [i \in 0 .. 2 |-> [j \in 0 .. 2 |->
     << <<One, Zero, Zero>>, <<Zero, c, Neg(s)>>, <<Zero, s, c>> >>[i + 1][j + 1]]]

ElementalY(s, c) ==
  [i \in 0 .. 2 |-> [j \in 0 .. 2 |->
     << <<c, Zero, s>>, <<Zero, One, Zero>>, <<Neg(s), Zero, c>> >>[i + 1][j + 1]]]

ElementalZ(s, c) ==
  [i \in 0 .. 2 |-> [j \in 0 .. 2 |->
     << <<c, Neg(s), Zero>>, <<s, c, Zero>>, <<Zero, Zero, One>> >>[i + 1][j + 1]]]

\* the product of two 3x3 matrices, cell by cell
Product3(a, b) ==
  [i \in 0 .. 2 |-> [j \in 0 .. 2 |->
     Add(Add(Mul(a[i][0], b[0][j]), Mul(a[i][1], b[1][j])), Mul(a[i][2], b[2][j]))]]

\* a vector turned about the x, y and z axis by the angle of sine s and cosine c
TurnX(u, s, c) == Vec3(u.x, Sub(Mul(c, u.y), Mul(s, u.z)), Add(Mul(s, u.y), Mul(c, u.z)))

TurnY(u, s, c) == Vec3(Add(Mul(c, u.x), Mul(s, u.z)), u.y, Sub(Mul(c, u.z), Mul(s, u.x)))

TurnZ(u, s, c) == Vec3(Sub(Mul(c, u.x), Mul(s, u.y)), Add(Mul(s, u.x), Mul(c, u.y)), u.z)

C21_RotationIsZYX ==
  /\ op.name = "rotation" =>
       LET rx == ElementalX(op.x_angle.sin, op.x_angle.cos)
           ry == ElementalY(op.y_angle.sin, op.y_angle.cos)
           rz == ElementalZ(op.z_angle.sin, op.z_angle.cos)
           r == result.value
       IN /\ result.failure = "none"
          /\ r = Product3(rz, Product3(ry, rx))
          /\ \A i \in 0 .. 2, j \in 0 .. 2 :
               Add(Add(Mul(r[i][0], r[j][0]), Mul(r[i][1], r[j][1])), Mul(r[i][2], r[j][2]))
                 = IF i = j THEN One ELSE Zero
          /\ (op.x_angle = Angle(Zero, One) /\ op.y_angle = Angle(Zero, One)
                /\ op.z_angle = Angle(Zero, One)) => r = Identity(3)
  /\ op.name = "rotate" =>
       result = Returned(TurnZ(TurnY(TurnX(op.v, op.x_angle.sin, op.x_angle.cos),
                                     op.y_angle.sin, op.y_angle.cos),
                               op.z_angle.sin, op.z_angle.cos))

\* a quarter turn about x, then a turn about z, of the y axis: the two
\* rotations do not commute, and the turn about x acted first
C21_Witness ==
  /\ op.name = "rotate"
  /\ op.x_angle = Angle(One, Zero)
  /\ op.y_angle = Angle(Zero, One)
  /\ op.z_angle = Angle(Q(3, 5), Q(4, 5))
  /\ op.v = Vec3(Zero, One, Zero)
  /\ result.value = Vec3(Zero, Zero, One)

\* three angles that are not multiples of a quarter turn were composed
C21_WitnessMatrix ==
  /\ op.name = "rotation"
  /\ op.x_angle = Angle(Q(3, 5), Q(4, 5))
  /\ op.y_angle = Angle(Q(5, 13), Q(12, 13))
  /\ op.z_angle = Angle(Q(-3, 5), Q(4, 5))
  /\ result.value[2][0] = Q(-5, 13)

----------------------------------------------------------------------------
(* The optics functions: reflect and refract.  Their definitions are not   *)
(* among the source files; they are written from the description of the    *)
(* library, with the operators of Vec3 and linalg.hpp the tests compose    *)
(* them from.                                                              *)

\* Vec3::operator+(const Vec3& other)
Vec3Add(u, other) == Vec3(Add(u.x, other.x), Add(u.y, other.y), Add(u.z, other.z))

\* reflect(incident, normal): incident - 2 * dot(incident, normal) * normal
Reflect(incident, normal) ==
  Vec3Sub(incident, ScalarTimesVec3(Mul(I(2), Vec3Dot(incident, normal)), normal))

\* the cosine of the angle of incidence, and the squared sine of the angle
\* of transmission, of refract(incident, normal, eta)
CosI(incident, normal) == Neg(Vec3Dot(normal, incident))

Sin2T(incident, normal, eta) ==
  Mul(Mul(eta, eta), Sub(One, Mul(CosI(incident, normal), CosI(incident, normal))))

\* refract(incident, normal, eta)
Refract(incident, normal, eta) ==
  LET cos_i == CosI(incident, normal)
      sin2_t == Sin2T(incident, normal, eta)
  IN IF Greater(sin2_t, One) THEN Reflect(incident, normal)
     ELSE LET cos_t == Sqrt(Sub(One, sin2_t))
          IN Vec3Add(ScalarTimesVec3(eta, incident),
                     ScalarTimesVec3(Sub(Mul(eta, cos_i), cos_t), normal))

\* unit vectors with rational components: the axes both ways and the
\* directions of the triangle 3-4-5 in the planes of the axes
UnitVectors ==
  LET parts == {<<One, Zero, Zero>>, <<Q(3, 5), Q(4, 5), Zero>>, <<Q(4, 5), Q(3, 5), Zero>>}
      signs == {I(1), I(-1)}
  IN UNION {{Vec3(Mul(s1, p[1]), Mul(s2, p[2]), Zero), Vec3(Zero, Mul(s1, p[1]), Mul(s2, p[2])),
             Vec3(Mul(s2, p[2]), Zero, Mul(s1, p[1]))} : p \in parts, s1 \in signs, s2 \in signs}

\* the incident vectors of ReflectVec3, which are not unit vectors
ReflectIncidents == {Vec3(I(1), I(-1), Zero), Vec3(Zero, I(-1), I(-1))}

\* ratios of refractive indices
Etas == {I(1), Q(3, 4), Q(4, 3), Q(5, 4), Q(5, 3), Q(3, 2), Q(2, 3), I(2)}

\* the cosine of the angle of transmission is a scalar of the model
RefractExact(incident, normal, eta) ==
  \/ Greater(Sin2T(incident, normal, eta), One)
  \/ HasSqrt(Sub(One, Sin2T(incident, normal, eta)))

\* r = reflect(incident, normal)
ReflectCall ==
  /\ op.name = "idle"
  /\ \E incident \in UnitVectors \cup ReflectIncidents, normal \in UnitVectors :
       /\ op' = [name |-> "reflect", incident |-> incident, normal |-> normal]
       /\ result' = Returned(Reflect(incident, normal))
  /\ UNCHANGED <<vec, mat, writes>>

\* t = refract(incident, normal, eta)
RefractCall ==
  /\ op.name = "idle"
  /\ \E incident \in UnitVectors, normal \in UnitVectors, eta \in Etas :
       /\ RefractExact(incident, normal, eta)
       /\ op' = [name |-> "refract", incident |-> incident, normal |-> normal, eta |-> eta]
       /\ result' = Returned(Refract(incident, normal, eta))
  /\ UNCHANGED <<vec, mat, writes>>

NextOptics ==
  \/ ReflectCall
  \/ RefractCall

SpecOptics == InitLookAt /\ [][NextOptics]_vars

----------------------------------------------------------------------------
(* C22: in the total-internal-reflection regime (sin2T = eta^2 * (1 -      *)
(* cosI^2) > 1 with cosI = -dot(normal, incident)), refract(incident,      *)
(* normal, eta) returns a finite vector equal to reflect(incident, normal) *)
(* = incident - 2 * dot(incident, normal) * normal, and signals no         *)
(* failure.                                                                *)

\* a . b, term by term
Dot3(a, b) == Add(Add(Mul(a.x, b.x), Mul(a.y, b.y)), Mul(a.z, b.z))

\* incident - 2 * dot(incident, normal) * normal, component by component
Mirrored(incident, normal) ==
  LET twice == Mul(I(2), Dot3(incident, normal))
  IN Vec3(Sub(incident.x, Mul(twice, normal.x)),
          Sub(incident.y, Mul(twice, normal.y)),
          Sub(incident.z, Mul(twice, normal.z)))

\* eta^2 * (1 - dot(normal, incident)^2) > 1
TotalInternalReflection(incident, normal, eta) ==
  Greater(Mul(Mul(eta, eta), Sub(One, Mul(Dot3(normal, incident), Dot3(normal, incident)))), One)

IsScalar(a) == a \in Int \X (Nat \ {0})

C22_TotalInternalReflection ==
  /\ op.name = "reflect" => result = Returned(Mirrored(op.incident, op.normal))
  /\ (op.name = "refract" /\ TotalInternalReflection(op.incident, op.normal, op.eta)) =>
       /\ result.failure = "none"
       /\ IsScalar(result.value.x) /\ IsScalar(result.value.y) /\ IsScalar(result.value.z)
       /\ result.value = Mirrored(op.incident, op.normal)

\* glass to air at a grazing angle: the incident vector makes a cosine of
\* 3/5 with the normal and eta is 3/2, so sin2T is 36/25
C22_Witness ==
  /\ op.name = "refract"
  /\ op.incident = Vec3(Zero, Q(4, 5), Q(-3, 5))
  /\ op.normal = Vec3(Zero, Zero, One)
  /\ op.eta = Q(3, 2)
  /\ result.value = Vec3(Zero, Q(4, 5), Q(3, 5))

----------------------------------------------------------------------------
(* C23 as stated: for every unit incident vector and unit normal,          *)
(* refract(incident, normal, 1.0) equals the incident vector unchanged.    *)

C23_WitnessBackFacing ==
  /\ op.name = "refract"
  /\ op.eta = One
  /\ op.incident = Vec3(Zero, Q(4, 5), Q(3, 5))
  /\ op.normal = Vec3(Zero, Zero, One)
  /\ result.value = Vec3(Zero, Q(4, 5), Q(-3, 5))

----------------------------------------------------------------------------
(* The Mat3 specification: a constructed Mat3, cell writes, and its        *)
(* determinant and inverse, alone and embedded in a Mat4                   *)

InitMat3 == InitMat /\ mat.n = 3

\* the right operands of a product whose determinant is taken: the identity
\* and the matrices of the tests
DetOperands ==
  {a \in Operands(3) : \A i \in 0 .. 2, j \in 0 .. 2 : a[i][j][2] = 1}

\* det = m.determinant()
MatDeterminant ==
  /\ Built
  /\ mat.n = 3
  /\ op' = [name |-> "determinant"]
  /\ result' = Returned(Mat3Determinant(mat.m))
  /\ UNCHANGED <<vec, mat, writes>>

\* det = m.transposed().determinant()
MatTransposedDeterminant ==
  /\ Built
  /\ mat.n = 3
  /\ op' = [name |-> "transposed_determinant"]
  /\ result' = Returned(Mat3Determinant(Mat3Transposed(mat.m)))
  /\ UNCHANGED <<vec, mat, writes>>

\* det = (m * other).determinant()
MatProductDeterminant ==
  /\ Built
  /\ mat.n = 3
  /\ \E other \in DetOperands :
       /\ op' = [name |-> "product_determinant", other |-> other]
       /\ result' = Returned(Mat3Determinant(Mat3Mul(mat.m, other)))
  /\ UNCHANGED <<vec, mat, writes>>

\* Mat4(a).inverse() for a Mat3 a, next to a.inverse()
Mat4FromMat3Inverse ==
  /\ Built
  /\ mat.n = 3
  /\ op' = [name |-> "mat4_from_mat3_inverse", mat3_inverse |-> Mat3Inverse(mat.m)]
  /\ result' = Returned(Mat4Inverse(Mat4FromMat3(mat.m)))
  /\ UNCHANGED <<vec, mat, writes>>

\* the vectors a matrix is applied to
EmbeddedVectors == {Vec3(I(1), I(2), I(3)), Vec3(I(-1), Zero, Q(1, 2)), ZeroVec3}

\* Mat4(a) * Mat4(other) next to Mat4(a * other), for Mat3 a and other
Mat4FromMat3Product ==
  /\ Built
  /\ mat.n = 3
  /\ \E other \in Operands(3) :
       /\ op' = [name |-> "mat4_from_mat3_product", other |-> other]
       /\ result' = Returned([of_embedded |-> Mat4Mul(Mat4FromMat3(mat.m), Mat4FromMat3(other)),
                              embedded |-> Mat4FromMat3(Mat3Mul(mat.m, other))])
  /\ UNCHANGED <<vec, mat, writes>>

\* Mat4(a) * toVec4(v) and its toVec3, next to a * v, for a Mat3 a
Mat4FromMat3Apply ==
  /\ Built
  /\ mat.n = 3
  /\ \E v \in EmbeddedVectors :
       LET applied == Mat4TimesVec4(Mat4FromMat3(mat.m), ToVec4(v))
       IN /\ op' = [name |-> "mat4_from_mat3_apply", v |-> v]
          /\ result' = Returned([vec4 |-> applied, vec3 |-> ToVec3(applied),
                                 mat3_applied |-> Mat3TimesVec3(mat.m, v)])
  /\ UNCHANGED <<vec, mat, writes>>

NextMat3 ==
  \/ \E row \in 0 .. 2, col \in 0 .. 2, value \in Vals : MatSet(row, col, value)
  \/ MatInverse
  \/ Mat4FromMat3Inverse
  \/ MatDeterminant
  \/ MatTransposedDeterminant
  \/ MatProductDeterminant
  \/ Mat4FromMat3Product
  \/ Mat4FromMat3Apply

SpecMat3 == InitMat3 /\ [][NextMat3]_vars

----------------------------------------------------------------------------
(* C24: the singularity guards differ.  Mat3::inverse() returns the        *)
(* identity whenever |det| < 1e-6 (strictly), even for det # 0, and        *)
(* returns adjugate/det when |det| >= 1e-6; Mat4::inverse() returns the    *)
(* identity only when det = 0 exactly, so for a Mat3 A with 0 < |det A| <  *)
(* 1e-6, A.inverse() is the identity while Mat4(A).inverse() is the true   *)
(* inverse.                                                                *)

\* the determinant of a 3x3 matrix as the sum over the six permutations
Leibniz3(m) ==
  Sub(Sub(Sub(Add(Add(Mul(Mul(m[0][0], m[1][1]), m[2][2]),
                      Mul(Mul(m[0][1], m[1][2]), m[2][0])),
                  Mul(Mul(m[0][2], m[1][0]), m[2][1])),
              Mul(Mul(m[0][2], m[1][1]), m[2][0])),
          Mul(Mul(m[0][1], m[1][0]), m[2][2])),
      Mul(Mul(m[0][0], m[1][2]), m[2][1]))

\* the transposed cofactor (j, i) of a 3x3 matrix, by the 2x2 minor left by
\* row j and column i
Adjugate3(m, i, j) ==
  LET r1 == IF j = 0 THEN 1 ELSE 0
      r2 == IF j = 2 THEN 1 ELSE 2
      c1 == IF i = 0 THEN 1 ELSE 0
      c2 == IF i = 2 THEN 1 ELSE 2
      minor == Sub(Mul(m[r1][c1], m[r2][c2]), Mul(m[r1][c2], m[r2][c1]))
  IN IF (i + j) % 2 = 0 THEN minor ELSE Neg(minor)

\* the 4x4 matrix with a in its top-left block, 0 around it and 1 in the corner
Embedded(a) ==
  [i \in 0 .. 3 |-> [j \in 0 .. 3 |->
     IF i < 3 /\ j < 3 THEN a[i][j] ELSE IF i = j THEN One ELSE Zero]]

C24_WitnessAtEpsilon ==
  /\ op.name = "inverse"
  /\ mat.n = 3
  /\ Leibniz3(mat.m) = Q(1, 1000000)
  /\ result.value[0][0] = I(100)

\* a written matrix with a determinant between 0 and the epsilon
C24_WitnessWritten ==
  /\ op.name = "mat4_from_mat3_inverse"
  /\ writes = 1
  /\ Leibniz3(mat.m) # Zero
  /\ Less(FAbs(Leibniz3(mat.m)), Q(1, 1000000))
  /\ mat.m[0][1] # Zero
  /\ result.value # Identity(4)

----------------------------------------------------------------------------
(* C25: Mat3::determinant() equals the first-row cofactor expansion        *)
(* m00*(m11*m22 - m12*m21) - m01*(m10*m22 - m12*m20) + m02*(m10*m21 -      *)
(* m11*m20) for every Mat3, so determinant(Identity) = 1,                  *)
(* determinant(M.transposed()) = determinant(M) and determinant(A * B) =   *)
(* determinant(A) * determinant(B) in exact arithmetic.                    *)

\* the expansion along the first row, from the cofactors of the row
FirstRowExpansion(m) ==
  Add(Add(Mul(m[0][0], Adjugate3(m, 0, 0)), Mul(m[0][1], Adjugate3(m, 1, 0))),
      Mul(m[0][2], Adjugate3(m, 2, 0)))

C25_Determinant ==
  /\ op.name = "determinant" =>
       /\ result = Returned(FirstRowExpansion(mat.m))
       /\ result.value = Leibniz3(mat.m)
       /\ mat.m = Identity(3) => result.value = One
  /\ op.name = "transposed_determinant" => result = Returned(Leibniz3(mat.m))
  /\ op.name = "product_determinant" =>
       result = Returned(Mul(Leibniz3(mat.m), Leibniz3(op.other)))

\* the product of two matrices of the tests with determinants other than
\* 0 and 1
C25_Witness ==
  /\ op.name = "product_determinant"
  /\ writes = 1
  /\ Leibniz3(mat.m) \notin {Zero, One}
  /\ Leibniz3(op.other) \notin {Zero, One}
  /\ mat.m # op.other
  /\ result.value = Mul(Leibniz3(mat.m), Leibniz3(op.other))

\* the determinant of the identity
C25_WitnessIdentity ==
  /\ op.name = "determinant"
  /\ mat.m = Identity(3)
  /\ result.value = One

----------------------------------------------------------------------------
(* C26: after any sequence of indexed writes v[i] = x (valid or invalid i) *)
(* and in-place operations on a VecN, the indexed read v[i] equals the     *)
(* named component i (0 = x, 1 = y, 2 = z, 3 = w) for every valid i, and   *)
(* each successful indexed write changed exactly the named component i and *)
(* no other.                                                               *)

ComponentNamed(index) == <<"x", "y", "z", "w">>[index + 1]

C26_IndexedIsNamed ==
  /\ []((op.name = "index_read" /\ op.index \in 0 .. vec.n - 1)
          => result = Returned(vec[ComponentNamed(op.index)]))
  /\ [][(op'.name = "index_write" /\ result'.failure = "none")
          => /\ op'.index \in 0 .. vec.n - 1
             /\ DOMAIN vec' = DOMAIN vec
             /\ vec'.n = vec.n
             /\ \A name \in DOMAIN vec \ {"n"} :
                  vec'[name] = IF name = ComponentNamed(op'.index) THEN op'.value
                               ELSE vec[name]]_vars
  /\ [][(op'.name = "index_write" /\ op'.index \in 0 .. vec.n - 1)
          => result'.failure = "none"]_vars

\* w was read by index after z and w were written by index
C26_Witness ==
  /\ op.name = "index_read"
  /\ vec.n = 4
  /\ writes = 2
  /\ op.index = 3
  /\ vec.z # vec.w
  /\ result = Returned(vec.w)

\* a component was written by index after the vector was normalised in place
C26_WitnessAfterNormalize ==
  /\ op.name = "index_write"
  /\ writes = 2
  /\ vec.n = 3
  /\ op.index = 2
  /\ vec.x = Q(2, 3)
  /\ vec.z = op.value
  /\ op.value = I(-1)

----------------------------------------------------------------------------
(* C27: self-aliased matrix multiply-assign is safe: for every Mat3 and    *)
(* Mat4 a, after a *= a the value of a equals (old a) * (old a); no cell   *)
(* of the result is computed from an already-overwritten cell.             *)

\* cell (i, j) of a * a for an n x n matrix a
SquareCell(a, n, i, j) ==
  LET to3 == Add(Add(Mul(a[i][0], a[0][j]), Mul(a[i][1], a[1][j])), Mul(a[i][2], a[2][j]))
  IN IF n = 3 THEN to3 ELSE Add(to3, Mul(a[i][3], a[3][j]))

C27_SelfMulAssign ==
  (op.name = "mul_assign" /\ op.alias) =>
    /\ DOMAIN mat.m = 0 .. mat.n - 1
    /\ \A i \in 0 .. mat.n - 1, j \in 0 .. mat.n - 1 :
         mat.m[i][j] = SquareCell(op.before, mat.n, i, j)
    /\ op.other_after = mat.m

\* a written Mat4 whose square differs from what a row-by-row product in
\* place would leave
C27_Witness ==
  /\ op.name = "mul_assign"
  /\ op.alias
  /\ mat.n = 4
  /\ writes = 1
  /\ mat.m # op.before
  /\ mat.m # RowBufferedRows(op.before, 0, 4)
  /\ mat.m[3][3] = SquareCell(op.before, 4, 3, 3)

C27_WitnessMat3 ==
  /\ op.name = "mul_assign"
  /\ op.alias
  /\ mat.n = 3
  /\ mat.m # RowBufferedRows(op.before, 0, 3)
  /\ mat.m[2][2] = SquareCell(op.before, 3, 2, 2)

----------------------------------------------------------------------------
(* The second view-matrix specification: LookAt from the points of the     *)
(* grid along directions of rational length, and the view applied to the   *)
(* eye                                                                     *)

\* center - eye: no direction, the axes both ways, and directions of
\* integer length in the planes of the axes and off them; 195/197 is below
\* 0.99 and 255/257 above
Directions ==
  LET Both(u) == {u, Vec3(Neg(u.x), Neg(u.y), Neg(u.z))}
  IN UNION {Both(Vec3(I(t[1]), I(t[2]), I(t[3]))) :
              t \in {<<0, 0, 0>>, <<1, 0, 0>>, <<0, 1, 0>>, <<0, 0, 1>>, <<0, 2, 0>>,
                     <<3, 4, 0>>, <<4, 3, 0>>, <<0, 3, 4>>, <<0, 4, 3>>, <<3, 0, 4>>,
                     <<-3, 4, 0>>, <<0, 4, -3>>, <<1, 2, 2>>, <<2, 1, 2>>, <<2, 2, 1>>,
                     <<28, 195, 0>>, <<0, 195, 28>>, <<32, 255, 0>>, <<0, 255, -32>>}}

\* up vectors: the axes, the zero vector and vectors that are not unit vectors
Ups == {Vec3(Zero, One, Zero), Vec3(Zero, Zero, One), Vec3(One, Zero, Zero), ZeroVec3,
        Vec3(Zero, I(2), Zero), Vec3(I(3), I(4), Zero), Vec3(Zero, I(-1), Zero)}

\* LookAt(eye, center, up) * toVec4(eye)
LookAtEyeCall ==
  /\ op.name = "idle"
  /\ \E eye \in Points, direction \in Directions, up \in Ups :
       \E center \in {Vec3Add(eye, direction)} :
         /\ LookAtExact(eye, center, up)
         /\ \E view \in {LookAt(eye, center, up)} :
              /\ op' = [name |-> "look_at_eye", eye |-> eye, center |-> center, up |-> up]
              /\ result' = IF view.failure # "none" THEN view
                           ELSE Returned(Mat4TimesVec4(view.value, ToVec4(eye)))
  /\ UNCHANGED <<vec, mat, writes>>

\* view = Mat4::LookAt(eye, center), with the forward and up_world vectors it
\* computes
LookAtDefaultUpCall ==
  /\ op.name = "idle"
  /\ \E eye \in Points, direction \in Directions :
       \E center \in {Vec3Add(eye, direction)} :
         /\ ExactLength(Vec3Sub(center, eye))
         /\ \E forward \in {Normalize(Vec3Sub(center, eye))} :
              /\ LookAtExact(eye, center, LookAtUpWorld(forward))
              /\ op' = [name |-> "look_at_from", eye |-> eye, center |-> center,
                        forward |-> forward, up_world |-> LookAtUpWorld(forward)]
              /\ result' = LookAtDefaultUp(eye, center)
  /\ UNCHANGED <<vec, mat, writes>>

NextView ==
  \/ LookAtEyeCall
  \/ LookAtDefaultUpCall

SpecView == InitLookAt /\ [][NextView]_vars

----------------------------------------------------------------------------
(* C28: for all eye, center and up, LookAt(eye, center, up) * toVec4(eye)  *)
(* equals (0,0,0,1) in exact arithmetic: the view matrix maps the eye      *)
(* position to the origin, including in the degenerate cases where forward *)
(* or side is the zero vector.                                             *)

C28_ViewMapsEyeToOrigin ==
  op.name = "look_at_eye" =>
    /\ result.failure = "none"
    /\ result.value = [n |-> 4, x |-> I(0), y |-> I(0), z |-> I(0), w |-> I(1)]

\* an eye off the origin and off the line of sight, an oblique direction and
\* an up vector that is not a unit vector
C28_Witness ==
  /\ op.name = "look_at_eye"
  /\ op.eye = Vec3(I(1), I(-1), I(1))
  /\ Vec3Sub(op.center, op.eye) = Vec3(I(3), I(4), Zero)
  /\ op.up = Vec3(Zero, I(2), Zero)
  /\ result.value.w = One

\* eye = center: forward is the zero vector
C28_WitnessDegenerate ==
  /\ op.name = "look_at_eye"
  /\ op.eye = op.center
  /\ op.eye = Vec3(I(1), I(1), I(-1))
  /\ op.up = Vec3(Zero, One, Zero)
  /\ result.value.w = One

\* up parallel to forward: side is the zero vector
C28_WitnessParallel ==
  /\ op.name = "look_at_eye"
  /\ op.eye = Vec3(I(1), I(1), I(-1))
  /\ Vec3Sub(op.center, op.eye) = Vec3(Zero, I(2), Zero)
  /\ op.up = Vec3(Zero, I(-1), Zero)
  /\ result.value.w = One

----------------------------------------------------------------------------
(* C29: for every eye # center, the default up vector chosen by            *)
(* LookAt(eye, center) is never parallel to forward, so cross(forward, up) *)
(* is non-zero and the side and trueUp rows of the result are non-zero;    *)
(* only eye = center yields the degenerate matrix whose first three rows   *)
(* are all zero.                                                           *)

\* a x b, component by component
Cross3(a, b) ==
  <<Sub(Mul(a.y, b.z), Mul(a.z, b.y)),
    Sub(Mul(a.z, b.x), Mul(a.x, b.z)),
    Sub(Mul(a.x, b.y), Mul(a.y, b.x))>>

\* the first three cells of a row of a Mat4
Axis(m, i) == <<m[i][0], m[i][1], m[i][2]>>

C29_WitnessBelow ==
  /\ op.name = "look_at_from"
  /\ op.forward = Vec3(Q(28, 197), Q(195, 197), Zero)
  /\ op.up_world = Vec3(Zero, One, Zero)
  /\ Axis(result.value, 0) = <<Zero, Zero, One>>

\* straight up, and eye = center
C29_WitnessVertical ==
  /\ op.name = "look_at_from"
  /\ op.forward = Vec3(Zero, I(-1), Zero)
  /\ op.up_world = Vec3(Zero, Zero, One)

C29_WitnessDegenerate ==
  /\ op.name = "look_at_from"
  /\ op.eye = op.center
  /\ op.eye # ZeroVec3
  /\ result.value[2] = [j \in 0 .. 3 |-> Zero]

----------------------------------------------------------------------------
(* C30: the Mat3-to-Mat4 embedding commutes with multiplication and with   *)
(* matrix-vector application: for all Mat3 A, B and Vec3 v, Mat4(A) *      *)
(* Mat4(B) = Mat4(A * B), and toVec3(Mat4(A) * toVec4(v)) = A * v, with    *)
(* the w component of Mat4(A) * toVec4(v) equal to 1.                      *)

\* row i of a 3x3 matrix times a vector
RowTimes(a, i, v) == Add(Add(Mul(a[i][0], v.x), Mul(a[i][1], v.y)), Mul(a[i][2], v.z))

C30_EmbeddingCommutes ==
  /\ op.name = "mat4_from_mat3_product" =>
       /\ result.failure = "none"
       /\ result.value.of_embedded = result.value.embedded
       /\ result.value.embedded = Embedded(Product3(mat.m, op.other))
  /\ op.name = "mat4_from_mat3_apply" =>
       /\ result.failure = "none"
       /\ result.value.vec3 = result.value.mat3_applied
       /\ result.value.vec3 = [n |-> 3, x |-> RowTimes(mat.m, 0, op.v),
                               y |-> RowTimes(mat.m, 1, op.v), z |-> RowTimes(mat.m, 2, op.v)]
       /\ result.value.vec4.n = 4
       /\ result.value.vec4.w = I(1)
       /\ result.value.vec4.x = result.value.vec3.x
       /\ result.value.vec4.y = result.value.vec3.y
       /\ result.value.vec4.z = result.value.vec3.z

\* a written matrix was applied to a vector without a zero component
C30_Witness ==
  /\ op.name = "mat4_from_mat3_apply"
  /\ writes = 1
  /\ op.v = Vec3(I(1), I(2), I(3))
  /\ mat.m # Identity(3)
  /\ result.value.vec3 # op.v
  /\ result.value.vec4.w = One

\* two matrices that do not commute were embedded and multiplied
C30_WitnessProduct ==
  /\ op.name = "mat4_from_mat3_product"
  /\ Mat3Mul(mat.m, op.other) # Mat3Mul(op.other, mat.m)
  /\ result.value.embedded[3][3] = One
  /\ result.value.of_embedded[0][0] # mat.m[0][0]

====
